---- MODULE Spec2Model ----
(***************************************************************************)
(* Model of the two documentation generators of PHPFarm:                   *)
(*   Farm/infra/scripts/generate_api_details_from_code.py  (route scanner) *)
(*   Farm/infra/scripts/generate_api_details.py            (spec renderer) *)
(*                                                                         *)
(* A string is the sequence of its code points, and the text of a source   *)
(* file is such a string: the tests and regular expressions of the scanner *)
(* are computed on the characters of a line, or of the whole file, as the  *)
(* code applies them.  None and '' are both the empty sequence: the code   *)
(* reads every optional string through `x or ''` or a truthiness test.     *)
(*                                                                         *)
(* upper() and lower() are those of Python 3.11 (Unicode 14) on every     *)
(* code point: the full case mappings, and for the capital sigma the rule  *)
(* of the final sigma.                                                     *)
(***************************************************************************)
EXTENDS Integers, Sequences, FiniteSets, TLC

VARIABLES
    utility,            \* which script runs: "scanner" or "renderer"
    pc,                 \* the position of the run
    fs,                 \* scanner input: the content of every file
    doc,                \* renderer input: the document at spec_path
    visitedA,           \* files the attribute pass has walked
    visitedB,           \* files the routes.php pass has walked
    routes,             \* collect_routes: routes
    files_with_routes,  \* collect_routes: files_with_routes
    origin,             \* per record of routes: the pass and the line it came from
    out,                \* the output file
    opens,              \* how often the output file was opened for writing
    sections,           \* renderer: the operation sections appended to lines
    todo,               \* renderer: the (path, method) keys still to visit
    fileNo,             \* line-by-line runs: the number of the file being scanned
    lines,              \* line-by-line runs: f.readlines() of that file
    n,                  \* line-by-line runs: the next line (match) to process
    scan,               \* current_group, current_class, in_block_comment
    group,              \* group_prefix, group_middleware of the routes.php pass
    used                \* line-by-line runs: lines read so far

vars ==
    <<utility, pc, fs, doc, visitedA, visitedB, routes, files_with_routes, origin,
      out, opens, sections, todo, fileNo, lines, n, scan, group, used>>

----------------------------------------------------------------------------
(* Strings *)

Min(a, b) == IF a < b THEN a ELSE b

RECURSIVE FlattenSeq(_)
\* ''.join(ss)
FlattenSeq(ss) == IF ss = <<>> THEN <<>> ELSE Head(ss) \o FlattenSeq(Tail(ss))

\* str.upper(), code points with one code point as upper case: from lo to hi in
\* steps of step the upper case is the code point plus delta, <<lo, hi, step, delta>>
UpperRanges ==
    {<<97, 122, 1, -32>>, <<181, 181, 1, 743>>, <<224, 246, 1, -32>>,
     <<248, 254, 1, -32>>, <<255, 255, 1, 121>>, <<257, 303, 2, -1>>,
     <<305, 305, 1, -232>>, <<307, 311, 2, -1>>, <<314, 328, 2, -1>>,
     <<331, 375, 2, -1>>, <<378, 382, 2, -1>>, <<383, 383, 1, -300>>,
     <<384, 384, 1, 195>>, <<387, 389, 2, -1>>, <<392, 392, 1, -1>>,
     <<396, 396, 1, -1>>, <<402, 402, 1, -1>>, <<405, 405, 1, 97>>,
     <<409, 409, 1, -1>>, <<410, 410, 1, 163>>, <<414, 414, 1, 130>>,
     <<417, 421, 2, -1>>, <<424, 424, 1, -1>>, <<429, 429, 1, -1>>,
     <<432, 432, 1, -1>>, <<436, 438, 2, -1>>, <<441, 441, 1, -1>>,
     <<445, 445, 1, -1>>, <<447, 447, 1, 56>>, <<453, 453, 1, -1>>,
     <<454, 454, 1, -2>>, <<456, 456, 1, -1>>, <<457, 457, 1, -2>>,
     <<459, 459, 1, -1>>, <<460, 460, 1, -2>>, <<462, 476, 2, -1>>,
     <<477, 477, 1, -79>>, <<479, 495, 2, -1>>, <<498, 498, 1, -1>>,
     <<499, 499, 1, -2>>, <<501, 501, 1, -1>>, <<505, 543, 2, -1>>,
     <<547, 563, 2, -1>>, <<572, 572, 1, -1>>, <<575, 576, 1, 10815>>,
     <<578, 578, 1, -1>>, <<583, 591, 2, -1>>, <<592, 592, 1, 10783>>,
     <<593, 593, 1, 10780>>, <<594, 594, 1, 10782>>, <<595, 595, 1, -210>>,
     <<596, 596, 1, -206>>, <<598, 599, 1, -205>>, <<601, 601, 1, -202>>,
     <<603, 603, 1, -203>>, <<604, 604, 1, 42319>>, <<608, 608, 1, -205>>,
     <<609, 609, 1, 42315>>, <<611, 611, 1, -207>>, <<613, 613, 1, 42280>>,
     <<614, 614, 1, 42308>>, <<616, 616, 1, -209>>, <<617, 617, 1, -211>>,
     <<618, 618, 1, 42308>>, <<619, 619, 1, 10743>>, <<620, 620, 1, 42305>>,
     <<623, 623, 1, -211>>, <<625, 625, 1, 10749>>, <<626, 626, 1, -213>>,
     <<629, 629, 1, -214>>, <<637, 637, 1, 10727>>, <<640, 640, 1, -218>>,
     <<642, 642, 1, 42307>>, <<643, 643, 1, -218>>, <<647, 647, 1, 42282>>,
     <<648, 648, 1, -218>>, <<649, 649, 1, -69>>, <<650, 651, 1, -217>>,
     <<652, 652, 1, -71>>, <<658, 658, 1, -219>>, <<669, 669, 1, 42261>>,
     <<670, 670, 1, 42258>>, <<837, 837, 1, 84>>, <<881, 883, 2, -1>>,
     <<887, 887, 1, -1>>, <<891, 893, 1, 130>>, <<940, 940, 1, -38>>,
     <<941, 943, 1, -37>>, <<945, 961, 1, -32>>, <<962, 962, 1, -31>>,
     <<963, 971, 1, -32>>, <<972, 972, 1, -64>>, <<973, 974, 1, -63>>,
     <<976, 976, 1, -62>>, <<977, 977, 1, -57>>, <<981, 981, 1, -47>>,
     <<982, 982, 1, -54>>, <<983, 983, 1, -8>>, <<985, 1007, 2, -1>>,
     <<1008, 1008, 1, -86>>, <<1009, 1009, 1, -80>>, <<1010, 1010, 1, 7>>,
     <<1011, 1011, 1, -116>>, <<1013, 1013, 1, -96>>, <<1016, 1016, 1, -1>>,
     <<1019, 1019, 1, -1>>, <<1072, 1103, 1, -32>>, <<1104, 1119, 1, -80>>,
     <<1121, 1153, 2, -1>>, <<1163, 1215, 2, -1>>, <<1218, 1230, 2, -1>>,
     <<1231, 1231, 1, -15>>, <<1233, 1327, 2, -1>>, <<1377, 1414, 1, -48>>,
     <<4304, 4346, 1, 3008>>, <<4349, 4351, 1, 3008>>, <<5112, 5117, 1, -8>>,
     <<7296, 7296, 1, -6254>>, <<7297, 7297, 1, -6253>>, <<7298, 7298, 1, -6244>>,
     <<7299, 7300, 1, -6242>>, <<7301, 7301, 1, -6243>>, <<7302, 7302, 1, -6236>>,
     <<7303, 7303, 1, -6181>>, <<7304, 7304, 1, 35266>>, <<7545, 7545, 1, 35332>>,
     <<7549, 7549, 1, 3814>>, <<7566, 7566, 1, 35384>>, <<7681, 7829, 2, -1>>,
     <<7835, 7835, 1, -59>>, <<7841, 7935, 2, -1>>, <<7936, 7943, 1, 8>>,
     <<7952, 7957, 1, 8>>, <<7968, 7975, 1, 8>>, <<7984, 7991, 1, 8>>,
     <<8000, 8005, 1, 8>>, <<8017, 8023, 2, 8>>, <<8032, 8039, 1, 8>>,
     <<8048, 8049, 1, 74>>, <<8050, 8053, 1, 86>>, <<8054, 8055, 1, 100>>,
     <<8056, 8057, 1, 128>>, <<8058, 8059, 1, 112>>, <<8060, 8061, 1, 126>>,
     <<8112, 8113, 1, 8>>, <<8126, 8126, 1, -7205>>, <<8144, 8145, 1, 8>>,
     <<8160, 8161, 1, 8>>, <<8165, 8165, 1, 7>>, <<8526, 8526, 1, -28>>,
     <<8560, 8575, 1, -16>>, <<8580, 8580, 1, -1>>, <<9424, 9449, 1, -26>>,
     <<11312, 11359, 1, -48>>, <<11361, 11361, 1, -1>>, <<11365, 11365, 1, -10795>>,
     <<11366, 11366, 1, -10792>>, <<11368, 11372, 2, -1>>, <<11379, 11379, 1, -1>>,
     <<11382, 11382, 1, -1>>, <<11393, 11491, 2, -1>>, <<11500, 11502, 2, -1>>,
     <<11507, 11507, 1, -1>>, <<11520, 11557, 1, -7264>>, <<11559, 11559, 1, -7264>>,
     <<11565, 11565, 1, -7264>>, <<42561, 42605, 2, -1>>, <<42625, 42651, 2, -1>>,
     <<42787, 42799, 2, -1>>, <<42803, 42863, 2, -1>>, <<42874, 42876, 2, -1>>,
     <<42879, 42887, 2, -1>>, <<42892, 42892, 1, -1>>, <<42897, 42899, 2, -1>>,
     <<42900, 42900, 1, 48>>, <<42903, 42921, 2, -1>>, <<42933, 42947, 2, -1>>,
     <<42952, 42954, 2, -1>>, <<42961, 42961, 1, -1>>, <<42967, 42969, 2, -1>>,
     <<42998, 42998, 1, -1>>, <<43859, 43859, 1, -928>>, <<43888, 43967, 1, -38864>>,
     <<65345, 65370, 1, -32>>, <<66600, 66639, 1, -40>>, <<66776, 66811, 1, -40>>,
     <<66967, 66977, 1, -39>>, <<66979, 66993, 1, -39>>, <<66995, 67001, 1, -39>>,
     <<67003, 67004, 1, -39>>, <<68800, 68850, 1, -64>>, <<71872, 71903, 1, -32>>,
     <<93792, 93823, 1, -32>>, <<125218, 125251, 1, -34>>}

\* str.upper(), code points whose upper case is more than one code point
UpperMany ==
    {<<223, <<83, 83>>>>, <<329, <<700, 78>>>>, <<496, <<74, 780>>>>,
     <<912, <<921, 776, 769>>>>, <<944, <<933, 776, 769>>>>, <<1415, <<1333, 1362>>>>,
     <<7830, <<72, 817>>>>, <<7831, <<84, 776>>>>, <<7832, <<87, 778>>>>,
     <<7833, <<89, 778>>>>, <<7834, <<65, 702>>>>, <<8016, <<933, 787>>>>,
     <<8018, <<933, 787, 768>>>>, <<8020, <<933, 787, 769>>>>,
     <<8022, <<933, 787, 834>>>>, <<8064, <<7944, 921>>>>, <<8065, <<7945, 921>>>>,
     <<8066, <<7946, 921>>>>, <<8067, <<7947, 921>>>>, <<8068, <<7948, 921>>>>,
     <<8069, <<7949, 921>>>>, <<8070, <<7950, 921>>>>, <<8071, <<7951, 921>>>>,
     <<8072, <<7944, 921>>>>, <<8073, <<7945, 921>>>>, <<8074, <<7946, 921>>>>,
     <<8075, <<7947, 921>>>>, <<8076, <<7948, 921>>>>, <<8077, <<7949, 921>>>>,
     <<8078, <<7950, 921>>>>, <<8079, <<7951, 921>>>>, <<8080, <<7976, 921>>>>,
     <<8081, <<7977, 921>>>>, <<8082, <<7978, 921>>>>, <<8083, <<7979, 921>>>>,
     <<8084, <<7980, 921>>>>, <<8085, <<7981, 921>>>>, <<8086, <<7982, 921>>>>,
     <<8087, <<7983, 921>>>>, <<8088, <<7976, 921>>>>, <<8089, <<7977, 921>>>>,
     <<8090, <<7978, 921>>>>, <<8091, <<7979, 921>>>>, <<8092, <<7980, 921>>>>,
     <<8093, <<7981, 921>>>>, <<8094, <<7982, 921>>>>, <<8095, <<7983, 921>>>>,
     <<8096, <<8040, 921>>>>, <<8097, <<8041, 921>>>>, <<8098, <<8042, 921>>>>,
     <<8099, <<8043, 921>>>>, <<8100, <<8044, 921>>>>, <<8101, <<8045, 921>>>>,
     <<8102, <<8046, 921>>>>, <<8103, <<8047, 921>>>>, <<8104, <<8040, 921>>>>,
     <<8105, <<8041, 921>>>>, <<8106, <<8042, 921>>>>, <<8107, <<8043, 921>>>>,
     <<8108, <<8044, 921>>>>, <<8109, <<8045, 921>>>>, <<8110, <<8046, 921>>>>,
     <<8111, <<8047, 921>>>>, <<8114, <<8122, 921>>>>, <<8115, <<913, 921>>>>,
     <<8116, <<902, 921>>>>, <<8118, <<913, 834>>>>, <<8119, <<913, 834, 921>>>>,
     <<8124, <<913, 921>>>>, <<8130, <<8138, 921>>>>, <<8131, <<919, 921>>>>,
     <<8132, <<905, 921>>>>, <<8134, <<919, 834>>>>, <<8135, <<919, 834, 921>>>>,
     <<8140, <<919, 921>>>>, <<8146, <<921, 776, 768>>>>, <<8147, <<921, 776, 769>>>>,
     <<8150, <<921, 834>>>>, <<8151, <<921, 776, 834>>>>, <<8162, <<933, 776, 768>>>>,
     <<8163, <<933, 776, 769>>>>, <<8164, <<929, 787>>>>, <<8166, <<933, 834>>>>,
     <<8167, <<933, 776, 834>>>>, <<8178, <<8186, 921>>>>, <<8179, <<937, 921>>>>,
     <<8180, <<911, 921>>>>, <<8182, <<937, 834>>>>, <<8183, <<937, 834, 921>>>>,
     <<8188, <<937, 921>>>>, <<64256, <<70, 70>>>>, <<64257, <<70, 73>>>>,
     <<64258, <<70, 76>>>>, <<64259, <<70, 70, 73>>>>, <<64260, <<70, 70, 76>>>>,
     <<64261, <<83, 84>>>>, <<64262, <<83, 84>>>>, <<64275, <<1348, 1350>>>>,
     <<64276, <<1348, 1333>>>>, <<64277, <<1348, 1339>>>>, <<64278, <<1358, 1350>>>>,
     <<64279, <<1348, 1341>>>>}

\* str.lower(), as UpperRanges
LowerRanges ==
    {<<65, 90, 1, 32>>, <<192, 214, 1, 32>>, <<216, 222, 1, 32>>, <<256, 302, 2, 1>>,
     <<306, 310, 2, 1>>, <<313, 327, 2, 1>>, <<330, 374, 2, 1>>, <<376, 376, 1, -121>>,
     <<377, 381, 2, 1>>, <<385, 385, 1, 210>>, <<386, 388, 2, 1>>,
     <<390, 390, 1, 206>>, <<391, 391, 1, 1>>, <<393, 394, 1, 205>>,
     <<395, 395, 1, 1>>, <<398, 398, 1, 79>>, <<399, 399, 1, 202>>,
     <<400, 400, 1, 203>>, <<401, 401, 1, 1>>, <<403, 403, 1, 205>>,
     <<404, 404, 1, 207>>, <<406, 406, 1, 211>>, <<407, 407, 1, 209>>,
     <<408, 408, 1, 1>>, <<412, 412, 1, 211>>, <<413, 413, 1, 213>>,
     <<415, 415, 1, 214>>, <<416, 420, 2, 1>>, <<422, 422, 1, 218>>,
     <<423, 423, 1, 1>>, <<425, 425, 1, 218>>, <<428, 428, 1, 1>>,
     <<430, 430, 1, 218>>, <<431, 431, 1, 1>>, <<433, 434, 1, 217>>,
     <<435, 437, 2, 1>>, <<439, 439, 1, 219>>, <<440, 440, 1, 1>>, <<444, 444, 1, 1>>,
     <<452, 452, 1, 2>>, <<453, 453, 1, 1>>, <<455, 455, 1, 2>>, <<456, 456, 1, 1>>,
     <<458, 458, 1, 2>>, <<459, 475, 2, 1>>, <<478, 494, 2, 1>>, <<497, 497, 1, 2>>,
     <<498, 500, 2, 1>>, <<502, 502, 1, -97>>, <<503, 503, 1, -56>>,
     <<504, 542, 2, 1>>, <<544, 544, 1, -130>>, <<546, 562, 2, 1>>,
     <<570, 570, 1, 10795>>, <<571, 571, 1, 1>>, <<573, 573, 1, -163>>,
     <<574, 574, 1, 10792>>, <<577, 577, 1, 1>>, <<579, 579, 1, -195>>,
     <<580, 580, 1, 69>>, <<581, 581, 1, 71>>, <<582, 590, 2, 1>>, <<880, 882, 2, 1>>,
     <<886, 886, 1, 1>>, <<895, 895, 1, 116>>, <<902, 902, 1, 38>>,
     <<904, 906, 1, 37>>, <<908, 908, 1, 64>>, <<910, 911, 1, 63>>,
     <<913, 929, 1, 32>>, <<931, 939, 1, 32>>, <<975, 975, 1, 8>>, <<984, 1006, 2, 1>>,
     <<1012, 1012, 1, -60>>, <<1015, 1015, 1, 1>>, <<1017, 1017, 1, -7>>,
     <<1018, 1018, 1, 1>>, <<1021, 1023, 1, -130>>, <<1024, 1039, 1, 80>>,
     <<1040, 1071, 1, 32>>, <<1120, 1152, 2, 1>>, <<1162, 1214, 2, 1>>,
     <<1216, 1216, 1, 15>>, <<1217, 1229, 2, 1>>, <<1232, 1326, 2, 1>>,
     <<1329, 1366, 1, 48>>, <<4256, 4293, 1, 7264>>, <<4295, 4295, 1, 7264>>,
     <<4301, 4301, 1, 7264>>, <<5024, 5103, 1, 38864>>, <<5104, 5109, 1, 8>>,
     <<7312, 7354, 1, -3008>>, <<7357, 7359, 1, -3008>>, <<7680, 7828, 2, 1>>,
     <<7838, 7838, 1, -7615>>, <<7840, 7934, 2, 1>>, <<7944, 7951, 1, -8>>,
     <<7960, 7965, 1, -8>>, <<7976, 7983, 1, -8>>, <<7992, 7999, 1, -8>>,
     <<8008, 8013, 1, -8>>, <<8025, 8031, 2, -8>>, <<8040, 8047, 1, -8>>,
     <<8072, 8079, 1, -8>>, <<8088, 8095, 1, -8>>, <<8104, 8111, 1, -8>>,
     <<8120, 8121, 1, -8>>, <<8122, 8123, 1, -74>>, <<8124, 8124, 1, -9>>,
     <<8136, 8139, 1, -86>>, <<8140, 8140, 1, -9>>, <<8152, 8153, 1, -8>>,
     <<8154, 8155, 1, -100>>, <<8168, 8169, 1, -8>>, <<8170, 8171, 1, -112>>,
     <<8172, 8172, 1, -7>>, <<8184, 8185, 1, -128>>, <<8186, 8187, 1, -126>>,
     <<8188, 8188, 1, -9>>, <<8486, 8486, 1, -7517>>, <<8490, 8490, 1, -8383>>,
     <<8491, 8491, 1, -8262>>, <<8498, 8498, 1, 28>>, <<8544, 8559, 1, 16>>,
     <<8579, 8579, 1, 1>>, <<9398, 9423, 1, 26>>, <<11264, 11311, 1, 48>>,
     <<11360, 11360, 1, 1>>, <<11362, 11362, 1, -10743>>, <<11363, 11363, 1, -3814>>,
     <<11364, 11364, 1, -10727>>, <<11367, 11371, 2, 1>>, <<11373, 11373, 1, -10780>>,
     <<11374, 11374, 1, -10749>>, <<11375, 11375, 1, -10783>>,
     <<11376, 11376, 1, -10782>>, <<11378, 11378, 1, 1>>, <<11381, 11381, 1, 1>>,
     <<11390, 11391, 1, -10815>>, <<11392, 11490, 2, 1>>, <<11499, 11501, 2, 1>>,
     <<11506, 11506, 1, 1>>, <<42560, 42604, 2, 1>>, <<42624, 42650, 2, 1>>,
     <<42786, 42798, 2, 1>>, <<42802, 42862, 2, 1>>, <<42873, 42875, 2, 1>>,
     <<42877, 42877, 1, -35332>>, <<42878, 42886, 2, 1>>, <<42891, 42891, 1, 1>>,
     <<42893, 42893, 1, -42280>>, <<42896, 42898, 2, 1>>, <<42902, 42920, 2, 1>>,
     <<42922, 42922, 1, -42308>>, <<42923, 42923, 1, -42319>>,
     <<42924, 42924, 1, -42315>>, <<42925, 42925, 1, -42305>>,
     <<42926, 42926, 1, -42308>>, <<42928, 42928, 1, -42258>>,
     <<42929, 42929, 1, -42282>>, <<42930, 42930, 1, -42261>>,
     <<42931, 42931, 1, 928>>, <<42932, 42946, 2, 1>>, <<42948, 42948, 1, -48>>,
     <<42949, 42949, 1, -42307>>, <<42950, 42950, 1, -35384>>, <<42951, 42953, 2, 1>>,
     <<42960, 42960, 1, 1>>, <<42966, 42968, 2, 1>>, <<42997, 42997, 1, 1>>,
     <<65313, 65338, 1, 32>>, <<66560, 66599, 1, 40>>, <<66736, 66771, 1, 40>>,
     <<66928, 66938, 1, 39>>, <<66940, 66954, 1, 39>>, <<66956, 66962, 1, 39>>,
     <<66964, 66965, 1, 39>>, <<68736, 68786, 1, 64>>, <<71840, 71871, 1, 32>>,
     <<93760, 93791, 1, 32>>, <<125184, 125217, 1, 34>>}

\* the case-ignorable code points, which str.lower() passes over around a capital
\* sigma, as ranges <<lo, hi>>
CaseIgnorable ==
    {<<39, 39>>, <<46, 46>>, <<58, 58>>, <<94, 94>>, <<96, 96>>, <<168, 168>>,
     <<173, 173>>, <<175, 175>>, <<180, 180>>, <<183, 184>>, <<688, 879>>,
     <<884, 885>>, <<890, 890>>, <<900, 901>>, <<903, 903>>, <<1155, 1161>>,
     <<1369, 1369>>, <<1375, 1375>>, <<1425, 1469>>, <<1471, 1471>>, <<1473, 1474>>,
     <<1476, 1477>>, <<1479, 1479>>, <<1524, 1524>>, <<1536, 1541>>, <<1552, 1562>>,
     <<1564, 1564>>, <<1600, 1600>>, <<1611, 1631>>, <<1648, 1648>>, <<1750, 1757>>,
     <<1759, 1768>>, <<1770, 1773>>, <<1807, 1807>>, <<1809, 1809>>, <<1840, 1866>>,
     <<1958, 1968>>, <<2027, 2037>>, <<2042, 2042>>, <<2045, 2045>>, <<2070, 2093>>,
     <<2137, 2139>>, <<2184, 2184>>, <<2192, 2193>>, <<2200, 2207>>, <<2249, 2306>>,
     <<2362, 2362>>, <<2364, 2364>>, <<2369, 2376>>, <<2381, 2381>>, <<2385, 2391>>,
     <<2402, 2403>>, <<2417, 2417>>, <<2433, 2433>>, <<2492, 2492>>, <<2497, 2500>>,
     <<2509, 2509>>, <<2530, 2531>>, <<2558, 2558>>, <<2561, 2562>>, <<2620, 2620>>,
     <<2625, 2626>>, <<2631, 2632>>, <<2635, 2637>>, <<2641, 2641>>, <<2672, 2673>>,
     <<2677, 2677>>, <<2689, 2690>>, <<2748, 2748>>, <<2753, 2757>>, <<2759, 2760>>,
     <<2765, 2765>>, <<2786, 2787>>, <<2810, 2815>>, <<2817, 2817>>, <<2876, 2876>>,
     <<2879, 2879>>, <<2881, 2884>>, <<2893, 2893>>, <<2901, 2902>>, <<2914, 2915>>,
     <<2946, 2946>>, <<3008, 3008>>, <<3021, 3021>>, <<3072, 3072>>, <<3076, 3076>>,
     <<3132, 3132>>, <<3134, 3136>>, <<3142, 3144>>, <<3146, 3149>>, <<3157, 3158>>,
     <<3170, 3171>>, <<3201, 3201>>, <<3260, 3260>>, <<3263, 3263>>, <<3270, 3270>>,
     <<3276, 3277>>, <<3298, 3299>>, <<3328, 3329>>, <<3387, 3388>>, <<3393, 3396>>,
     <<3405, 3405>>, <<3426, 3427>>, <<3457, 3457>>, <<3530, 3530>>, <<3538, 3540>>,
     <<3542, 3542>>, <<3633, 3633>>, <<3636, 3642>>, <<3654, 3662>>, <<3761, 3761>>,
     <<3764, 3772>>, <<3782, 3782>>, <<3784, 3789>>, <<3864, 3865>>, <<3893, 3893>>,
     <<3895, 3895>>, <<3897, 3897>>, <<3953, 3966>>, <<3968, 3972>>, <<3974, 3975>>,
     <<3981, 3991>>, <<3993, 4028>>, <<4038, 4038>>, <<4141, 4144>>, <<4146, 4151>>,
     <<4153, 4154>>, <<4157, 4158>>, <<4184, 4185>>, <<4190, 4192>>, <<4209, 4212>>,
     <<4226, 4226>>, <<4229, 4230>>, <<4237, 4237>>, <<4253, 4253>>, <<4348, 4348>>,
     <<4957, 4959>>, <<5906, 5908>>, <<5938, 5939>>, <<5970, 5971>>, <<6002, 6003>>,
     <<6068, 6069>>, <<6071, 6077>>, <<6086, 6086>>, <<6089, 6099>>, <<6103, 6103>>,
     <<6109, 6109>>, <<6155, 6159>>, <<6211, 6211>>, <<6277, 6278>>, <<6313, 6313>>,
     <<6432, 6434>>, <<6439, 6440>>, <<6450, 6450>>, <<6457, 6459>>, <<6679, 6680>>,
     <<6683, 6683>>, <<6742, 6742>>, <<6744, 6750>>, <<6752, 6752>>, <<6754, 6754>>,
     <<6757, 6764>>, <<6771, 6780>>, <<6783, 6783>>, <<6823, 6823>>, <<6832, 6862>>,
     <<6912, 6915>>, <<6964, 6964>>, <<6966, 6970>>, <<6972, 6972>>, <<6978, 6978>>,
     <<7019, 7027>>, <<7040, 7041>>, <<7074, 7077>>, <<7080, 7081>>, <<7083, 7085>>,
     <<7142, 7142>>, <<7144, 7145>>, <<7149, 7149>>, <<7151, 7153>>, <<7212, 7219>>,
     <<7222, 7223>>, <<7288, 7293>>, <<7376, 7378>>, <<7380, 7392>>, <<7394, 7400>>,
     <<7405, 7405>>, <<7412, 7412>>, <<7416, 7417>>, <<7468, 7530>>, <<7544, 7544>>,
     <<7579, 7679>>, <<8125, 8125>>, <<8127, 8129>>, <<8141, 8143>>, <<8157, 8159>>,
     <<8173, 8175>>, <<8189, 8190>>, <<8203, 8207>>, <<8216, 8217>>, <<8228, 8228>>,
     <<8231, 8231>>, <<8234, 8238>>, <<8288, 8292>>, <<8294, 8303>>, <<8305, 8305>>,
     <<8319, 8319>>, <<8336, 8348>>, <<8400, 8432>>, <<11388, 11389>>,
     <<11503, 11505>>, <<11631, 11631>>, <<11647, 11647>>, <<11744, 11775>>,
     <<11823, 11823>>, <<12293, 12293>>, <<12330, 12333>>, <<12337, 12341>>,
     <<12347, 12347>>, <<12441, 12446>>, <<12540, 12542>>, <<40981, 40981>>,
     <<42232, 42237>>, <<42508, 42508>>, <<42607, 42610>>, <<42612, 42621>>,
     <<42623, 42623>>, <<42652, 42655>>, <<42736, 42737>>, <<42752, 42785>>,
     <<42864, 42864>>, <<42888, 42890>>, <<42994, 42996>>, <<43000, 43001>>,
     <<43010, 43010>>, <<43014, 43014>>, <<43019, 43019>>, <<43045, 43046>>,
     <<43052, 43052>>, <<43204, 43205>>, <<43232, 43249>>, <<43263, 43263>>,
     <<43302, 43309>>, <<43335, 43345>>, <<43392, 43394>>, <<43443, 43443>>,
     <<43446, 43449>>, <<43452, 43453>>, <<43471, 43471>>, <<43493, 43494>>,
     <<43561, 43566>>, <<43569, 43570>>, <<43573, 43574>>, <<43587, 43587>>,
     <<43596, 43596>>, <<43632, 43632>>, <<43644, 43644>>, <<43696, 43696>>,
     <<43698, 43700>>, <<43703, 43704>>, <<43710, 43711>>, <<43713, 43713>>,
     <<43741, 43741>>, <<43756, 43757>>, <<43763, 43764>>, <<43766, 43766>>,
     <<43867, 43871>>, <<43881, 43883>>, <<44005, 44005>>, <<44008, 44008>>,
     <<44013, 44013>>, <<64286, 64286>>, <<64434, 64450>>, <<65024, 65039>>,
     <<65043, 65043>>, <<65056, 65071>>, <<65106, 65106>>, <<65109, 65109>>,
     <<65279, 65279>>, <<65287, 65287>>, <<65294, 65294>>, <<65306, 65306>>,
     <<65342, 65342>>, <<65344, 65344>>, <<65392, 65392>>, <<65438, 65439>>,
     <<65507, 65507>>, <<65529, 65531>>, <<66045, 66045>>, <<66272, 66272>>,
     <<66422, 66426>>, <<67456, 67461>>, <<67463, 67504>>, <<67506, 67514>>,
     <<68097, 68099>>, <<68101, 68102>>, <<68108, 68111>>, <<68152, 68154>>,
     <<68159, 68159>>, <<68325, 68326>>, <<68900, 68903>>, <<69291, 69292>>,
     <<69446, 69456>>, <<69506, 69509>>, <<69633, 69633>>, <<69688, 69702>>,
     <<69744, 69744>>, <<69747, 69748>>, <<69759, 69761>>, <<69811, 69814>>,
     <<69817, 69818>>, <<69821, 69821>>, <<69826, 69826>>, <<69837, 69837>>,
     <<69888, 69890>>, <<69927, 69931>>, <<69933, 69940>>, <<70003, 70003>>,
     <<70016, 70017>>, <<70070, 70078>>, <<70089, 70092>>, <<70095, 70095>>,
     <<70191, 70193>>, <<70196, 70196>>, <<70198, 70199>>, <<70206, 70206>>,
     <<70367, 70367>>, <<70371, 70378>>, <<70400, 70401>>, <<70459, 70460>>,
     <<70464, 70464>>, <<70502, 70508>>, <<70512, 70516>>, <<70712, 70719>>,
     <<70722, 70724>>, <<70726, 70726>>, <<70750, 70750>>, <<70835, 70840>>,
     <<70842, 70842>>, <<70847, 70848>>, <<70850, 70851>>, <<71090, 71093>>,
     <<71100, 71101>>, <<71103, 71104>>, <<71132, 71133>>, <<71219, 71226>>,
     <<71229, 71229>>, <<71231, 71232>>, <<71339, 71339>>, <<71341, 71341>>,
     <<71344, 71349>>, <<71351, 71351>>, <<71453, 71455>>, <<71458, 71461>>,
     <<71463, 71467>>, <<71727, 71735>>, <<71737, 71738>>, <<71995, 71996>>,
     <<71998, 71998>>, <<72003, 72003>>, <<72148, 72151>>, <<72154, 72155>>,
     <<72160, 72160>>, <<72193, 72202>>, <<72243, 72248>>, <<72251, 72254>>,
     <<72263, 72263>>, <<72273, 72278>>, <<72281, 72283>>, <<72330, 72342>>,
     <<72344, 72345>>, <<72752, 72758>>, <<72760, 72765>>, <<72767, 72767>>,
     <<72850, 72871>>, <<72874, 72880>>, <<72882, 72883>>, <<72885, 72886>>,
     <<73009, 73014>>, <<73018, 73018>>, <<73020, 73021>>, <<73023, 73029>>,
     <<73031, 73031>>, <<73104, 73105>>, <<73109, 73109>>, <<73111, 73111>>,
     <<73459, 73460>>, <<78896, 78904>>, <<92912, 92916>>, <<92976, 92982>>,
     <<92992, 92995>>, <<94031, 94031>>, <<94095, 94111>>, <<94176, 94177>>,
     <<94179, 94180>>, <<110576, 110579>>, <<110581, 110587>>, <<110589, 110590>>,
     <<113821, 113822>>, <<113824, 113827>>, <<118528, 118573>>, <<118576, 118598>>,
     <<119143, 119145>>, <<119155, 119170>>, <<119173, 119179>>, <<119210, 119213>>,
     <<119362, 119364>>, <<121344, 121398>>, <<121403, 121452>>, <<121461, 121461>>,
     <<121476, 121476>>, <<121499, 121503>>, <<121505, 121519>>, <<122880, 122886>>,
     <<122888, 122904>>, <<122907, 122913>>, <<122915, 122916>>, <<122918, 122922>>,
     <<123184, 123197>>, <<123566, 123566>>, <<123628, 123631>>, <<125136, 125142>>,
     <<125252, 125259>>, <<127995, 127999>>, <<917505, 917505>>, <<917536, 917631>>,
     <<917760, 917999>>}

\* the cased code points (lower case, upper case or title case), as ranges <<lo, hi>>
Cased ==
    {<<65, 90>>, <<97, 122>>, <<170, 170>>, <<181, 181>>, <<186, 186>>, <<192, 214>>,
     <<216, 246>>, <<248, 442>>, <<444, 447>>, <<452, 659>>, <<661, 696>>,
     <<704, 705>>, <<736, 740>>, <<837, 837>>, <<880, 883>>, <<886, 887>>,
     <<890, 893>>, <<895, 895>>, <<902, 902>>, <<904, 906>>, <<908, 908>>,
     <<910, 929>>, <<931, 1013>>, <<1015, 1153>>, <<1162, 1327>>, <<1329, 1366>>,
     <<1376, 1416>>, <<4256, 4293>>, <<4295, 4295>>, <<4301, 4301>>, <<4304, 4346>>,
     <<4349, 4351>>, <<5024, 5109>>, <<5112, 5117>>, <<7296, 7304>>, <<7312, 7354>>,
     <<7357, 7359>>, <<7424, 7615>>, <<7680, 7957>>, <<7960, 7965>>, <<7968, 8005>>,
     <<8008, 8013>>, <<8016, 8023>>, <<8025, 8025>>, <<8027, 8027>>, <<8029, 8029>>,
     <<8031, 8061>>, <<8064, 8116>>, <<8118, 8124>>, <<8126, 8126>>, <<8130, 8132>>,
     <<8134, 8140>>, <<8144, 8147>>, <<8150, 8155>>, <<8160, 8172>>, <<8178, 8180>>,
     <<8182, 8188>>, <<8305, 8305>>, <<8319, 8319>>, <<8336, 8348>>, <<8450, 8450>>,
     <<8455, 8455>>, <<8458, 8467>>, <<8469, 8469>>, <<8473, 8477>>, <<8484, 8484>>,
     <<8486, 8486>>, <<8488, 8488>>, <<8490, 8493>>, <<8495, 8500>>, <<8505, 8505>>,
     <<8508, 8511>>, <<8517, 8521>>, <<8526, 8526>>, <<8544, 8575>>, <<8579, 8580>>,
     <<9398, 9449>>, <<11264, 11492>>, <<11499, 11502>>, <<11506, 11507>>,
     <<11520, 11557>>, <<11559, 11559>>, <<11565, 11565>>, <<42560, 42605>>,
     <<42624, 42653>>, <<42786, 42887>>, <<42891, 42894>>, <<42896, 42954>>,
     <<42960, 42961>>, <<42963, 42963>>, <<42965, 42969>>, <<42997, 42998>>,
     <<43000, 43002>>, <<43824, 43866>>, <<43868, 43880>>, <<43888, 43967>>,
     <<64256, 64262>>, <<64275, 64279>>, <<65313, 65338>>, <<65345, 65370>>,
     <<66560, 66639>>, <<66736, 66771>>, <<66776, 66811>>, <<66928, 66938>>,
     <<66940, 66954>>, <<66956, 66962>>, <<66964, 66965>>, <<66967, 66977>>,
     <<66979, 66993>>, <<66995, 67001>>, <<67003, 67004>>, <<67456, 67456>>,
     <<67459, 67461>>, <<67463, 67504>>, <<67506, 67514>>, <<68736, 68786>>,
     <<68800, 68850>>, <<71840, 71903>>, <<93760, 93823>>, <<119808, 119892>>,
     <<119894, 119964>>, <<119966, 119967>>, <<119970, 119970>>, <<119973, 119974>>,
     <<119977, 119980>>, <<119982, 119993>>, <<119995, 119995>>, <<119997, 120003>>,
     <<120005, 120069>>, <<120071, 120074>>, <<120077, 120084>>, <<120086, 120092>>,
     <<120094, 120121>>, <<120123, 120126>>, <<120128, 120132>>, <<120134, 120134>>,
     <<120138, 120144>>, <<120146, 120485>>, <<120488, 120512>>, <<120514, 120538>>,
     <<120540, 120570>>, <<120572, 120596>>, <<120598, 120628>>, <<120630, 120654>>,
     <<120656, 120686>>, <<120688, 120712>>, <<120714, 120744>>, <<120746, 120770>>,
     <<120772, 120779>>, <<122624, 122633>>, <<122635, 122654>>, <<125184, 125251>>,
     <<127280, 127305>>, <<127312, 127337>>, <<127344, 127369>>}

\* the delta of the range of R in which code point c lies, 0 when it lies in none
Shift(c, R) ==
    LET M == {r \in R : r[1] <= c /\ c <= r[2] /\ (c - r[1]) % r[3] = 0}
    IN IF M = {} THEN 0 ELSE (CHOOSE r \in M : TRUE)[4]

\* code point c lies in one of the ranges of R
Within(c, R) == \E r \in R : r[1] <= c /\ c <= r[2]

\* the upper case of one code point (str.upper() maps some to two or three)
UpperCp(c) ==
    LET Many == {e \in UpperMany : e[1] = c}
    IN IF Many # {} THEN (CHOOSE e \in Many : TRUE)[2]
       ELSE <<c + Shift(c, UpperRanges)>>

\* the lower case of one code point standing alone
LowerCp(c) == IF c = 304 THEN <<105, 775>> ELSE <<c + Shift(c, LowerRanges)>>

\* the capital sigma at place k of s is a final one: passing over case-ignorable
\* code points, a cased code point stands before it and none stands behind it
FinalSigma(s, k) ==
    LET Before == {j \in 1..(k - 1) : ~Within(s[j], CaseIgnorable)}
        Behind == {j \in (k + 1)..Len(s) : ~Within(s[j], CaseIgnorable)}
    IN /\ Before # {}
       /\ Within(s[CHOOSE j \in Before : \A i \in Before : i <= j], Cased)
       /\ \/ Behind = {}
          \/ ~Within(s[CHOOSE j \in Behind : \A i \in Behind : j <= i], Cased)

\* str.upper()
Upper(s) == FlattenSeq([k \in DOMAIN s |-> UpperCp(s[k])])

\* str.lower(): code point by code point, but for the capital sigma U+03A3, whose
\* lower case is U+03C2 where it is a final one and U+03C3 elsewhere
Lower(s) ==
    FlattenSeq([k \in DOMAIN s |->
                  IF s[k] = 931 THEN <<IF FinalSigma(s, k) THEN 962 ELSE 963>>
                  ELSE LowerCp(s[k])])

\* s.startswith(t)
StartsWith(s, t) == Len(t) <= Len(s) /\ SubSeq(s, 1, Len(t)) = t

\* s.endswith(t)
EndsWith(s, t) ==
    /\ Len(t) <= Len(s)
    /\ SubSeq(s, Len(s) - Len(t) + 1, Len(s)) = t

\* t stands in s at place k
At(s, k, t) == k + Len(t) - 1 <= Len(s) /\ SubSeq(s, k, k + Len(t) - 1) = t

\* the least number of a set of numbers, none when the set is empty
Least(P, none) == IF P = {} THEN none ELSE CHOOSE p \in P : \A q \in P : p <= q

\* the first place from k on at which t stands in s, 0 when there is none
Find(s, t, k) == Least({p \in k..Len(s) : At(s, p, t)}, 0)

\* t in s
Contains(s, t) == Find(s, t, 1) # 0

\* s < t, the order of Python str (code point by code point, a proper prefix first)
StrLess(s, t) ==
    \E k \in 1..(Min(Len(s), Len(t)) + 1) :
        /\ \A j \in 1..(k - 1) : s[j] = t[j]
        /\ \/ k = Len(s) + 1 /\ k <= Len(t)
           \/ k <= Len(s) /\ k <= Len(t) /\ s[k] < t[k]

\* os.path.join(dir, name) on the Windows paths of the script
PathJoin(dir, name) == dir \o <<92>> \o name

\* the code points str.strip() removes and \s matches: those for which
\* str.isspace() holds
IsSpace(c) ==
    \/ c \in 9..13
    \/ c \in 28..32
    \/ c \in {133, 160, 5760, 8232, 8233, 8239, 8287, 12288}
    \/ c \in 8192..8202

RECURSIVE LstripStr(_)
\* str.lstrip()
LstripStr(s) == IF s # <<>> /\ IsSpace(Head(s)) THEN LstripStr(Tail(s)) ELSE s

RECURSIVE RstripStr(_)
\* str.rstrip()
RstripStr(s) ==
    IF s # <<>> /\ IsSpace(s[Len(s)]) THEN RstripStr(SubSeq(s, 1, Len(s) - 1)) ELSE s

\* str.strip()
Strip(s) == LstripStr(RstripStr(s))

RECURSIVE StripQuotes(_)
\* str.strip("'"): every leading and trailing quote is removed
StripQuotes(s) ==
    IF s # <<>> /\ Head(s) = 39 THEN StripQuotes(Tail(s))
    ELSE IF s # <<>> /\ s[Len(s)] = 39 THEN StripQuotes(SubSeq(s, 1, Len(s) - 1))
    ELSE s

\* the first place from k on that holds c, Len(s) + 1 when there is none
PlaceOf(s, c, k) == Least({p \in k..Len(s) : s[p] = c}, Len(s) + 1)

RECURSIVE SplitComma(_)
\* s.split(',')
SplitComma(s) ==
    LET Cut(k) ==
            IF k > Len(s) THEN <<s>>
            ELSE <<SubSeq(s, 1, k - 1)>> \o SplitComma(SubSeq(s, k + 1, Len(s)))
    IN Cut(PlaceOf(s, 44, 1))

\* [m.strip().strip("'") for m in text.split(',') if m.strip()]
MiddlewareNames(text) ==
    LET NonBlank(m) == Strip(m) # <<>>
        Names(parts) == [k \in DOMAIN parts |-> StripQuotes(Strip(parts[k]))]
    IN Names(SelectSeq(SplitComma(text), NonBlank))

\* f.read() of a file opened with open(path, 'r'): universal newlines, \r\n and \r are read as \n (the \n
\* behind a \r is dropped, every \r left becomes \n)
Translate(s) ==
    LET Kept(e) == e.kept
        Chars(left) == [k \in DOMAIN left |-> left[k].c]
    IN Chars(SelectSeq([k \in DOMAIN s |->
                          [c |-> IF s[k] = 13 THEN 10 ELSE s[k],
                           kept |-> ~(s[k] = 10 /\ k > 1 /\ s[k - 1] = 13)]],
                       Kept))

RECURSIVE SplitLines(_)
\* the lines of a text, each with the \n that ends it
SplitLines(s) ==
    LET Cut(k) ==
            IF k > Len(s) THEN <<s>>
            ELSE <<SubSeq(s, 1, k)>> \o SplitLines(SubSeq(s, k + 1, Len(s)))
    IN IF s = <<>> THEN <<>> ELSE Cut(PlaceOf(s, 10, 1))

\* f.readlines()
ReadLines(text) == SplitLines(Translate(text))

S_open == <<47, 42>>  \* '/*'
S_close == <<42, 47>>  \* '*/'
S_slc == <<47, 47>>  \* '//'
S_class == <<99, 108, 97, 115, 115>>  \* 'class'
S_function == <<102, 117, 110, 99, 116, 105, 111, 110>>  \* 'function'
S_Router == <<82, 111, 117, 116, 101, 114, 58, 58>>  \* 'Router::'
\* 'Router::group(''
S_RouterGroupHead ==
    <<82, 111, 117, 116, 101, 114, 58, 58, 103, 114, 111, 117, 112, 40, 39>>
S_get == <<103, 101, 116>>  \* 'get'
S_post == <<112, 111, 115, 116>>  \* 'post'
S_options == <<111, 112, 116, 105, 111, 110, 115>>  \* 'options'
S_GET == <<71, 69, 84>>  \* 'GET'
S_POST == <<80, 79, 83, 84>>  \* 'POST'
S_php == <<46, 112, 104, 112>>  \* '.php'
S_routes_php == <<114, 111, 117, 116, 101, 115, 46, 112, 104, 112>>  \* 'routes.php'
S_a == <<47, 97>>  \* '/a'

----------------------------------------------------------------------------
(* The regular expressions of the scanner *)

RECURSIVE SkipSpace(_, _)
\* \s* from place k on: the first place that holds no white space
SkipSpace(s, k) == IF k <= Len(s) /\ IsSpace(s[k]) THEN SkipSpace(s, k + 1) ELSE k

RECURSIVE SkipWord(_, _)
\* [A-Za-z0-9_]* from place k on: the first place that holds no such character
SkipWord(s, k) ==
    IF k <= Len(s) /\ (s[k] \in 48..57 \/ s[k] \in 65..90 \/ s[k] \in 97..122 \/ s[k] = 95)
    THEN SkipWord(s, k + 1) ELSE k

\* re.search of head ([^\)]*) \) \] , head being #[RouteGroup( or #[Route( : the
\* leftmost place of head behind which the first ) is followed by ], and the
\* text up to that )
AttrSearch(s, head) ==
    LET Close(p) == PlaceOf(s, 41, p + Len(head))
        Closed(q) == q < Len(s) /\ s[q + 1] = 93
        Pick(p) ==
            IF p = 0 THEN [found |-> FALSE]
            ELSE [found |-> TRUE, args |-> SubSeq(s, p + Len(head), Close(p) - 1)]
    IN Pick(Least({p \in 1..Len(s) : At(s, p, head) /\ Closed(Close(p))}, 0))

\* line 18: route_group_re.search(line)
route_group_re(line) == AttrSearch(line, <<35, 91, 82, 111, 117, 116, 101, 71, 114, 111, 117, 112, 40>>)

\* line 19: route_re.search(line)
route_re(line) == AttrSearch(line, <<35, 91, 82, 111, 117, 116, 101, 40>>)

RECURSIVE string_re(_)
\* line 25: string_re.findall(text), the texts between successive pairs of quotes
string_re(s) ==
    LET Pair(a, b) ==
            IF b > Len(s) THEN <<>>
            ELSE <<SubSeq(s, a + 1, b - 1)>> \o string_re(SubSeq(s, b + 1, Len(s)))
        From(a) == Pair(a, PlaceOf(s, 39, a + 1))
    IN From(PlaceOf(s, 39, 1))

\* line 23: class_re.search(line) for class\s+([A-Za-z0-9_]+): group(1) of the
\* leftmost match, '' when there is none
class_re(line) ==
    LET Name(p, a) ==
            IF a > p + Len(S_class) THEN SubSeq(line, a, SkipWord(line, a) - 1)
            ELSE <<>>
        Found(p) == Name(p, SkipSpace(line, p + Len(S_class)))
        Pick(p) == IF p = 0 THEN <<>> ELSE Found(p)
    IN Pick(Least({p \in 1..Len(line) : At(line, p, S_class) /\ Found(p) # <<>>}, 0))

\* line 22: function_re.search(line) for function\s+([a-zA-Z0-9_]+)\s*\( :
\* group(1) of the leftmost match, '' when there is none
function_re(line) ==
    LET Name(a, e, o) ==
            IF e > a /\ o <= Len(line) /\ line[o] = 40 THEN SubSeq(line, a, e - 1)
            ELSE <<>>
        Word(a, e) == Name(a, e, SkipSpace(line, e))
        After(p, a) ==
            IF a > p + Len(S_function) THEN Word(a, SkipWord(line, a)) ELSE <<>>
        Found(p) == After(p, SkipSpace(line, p + Len(S_function)))
        Pick(p) == IF p = 0 THEN <<>> ELSE Found(p)
    IN Pick(Least({p \in 1..Len(line) : At(line, p, S_function) /\ Found(p) # <<>>}, 0))

\* re.search(r"<kw>\s*:\s*'([^']+)'", s): group(1) of the leftmost match, ''
\* when there is none
KwQuoted(s, kw) ==
    LET Quoted(a, b) ==
            IF a <= Len(s) /\ s[a] = 39 /\ b <= Len(s) /\ b > a + 1
            THEN SubSeq(s, a + 1, b - 1)
            ELSE <<>>
        Value(a) == Quoted(a, PlaceOf(s, 39, a + 1))
        Colon(c) ==
            IF c <= Len(s) /\ s[c] = 58 THEN Value(SkipSpace(s, c + 1)) ELSE <<>>
        Found(p) == Colon(SkipSpace(s, p + Len(kw)))
        Pick(p) == IF p = 0 THEN <<>> ELSE Found(p)
    IN Pick(Least({p \in 1..Len(s) : At(s, p, kw) /\ Found(p) # <<>>}, 0))

\* re.search(r"<kw>\s*:\s*\[([^\]]*)\]", s): the leftmost match
KwBracket(s, kw) ==
    LET List(a, b) ==
            IF a <= Len(s) /\ s[a] = 91 /\ b <= Len(s)
            THEN [found |-> TRUE, list |-> SubSeq(s, a + 1, b - 1)]
            ELSE [found |-> FALSE]
        Value(a) == List(a, PlaceOf(s, 93, a + 1))
        Colon(c) ==
            IF c <= Len(s) /\ s[c] = 58 THEN Value(SkipSpace(s, c + 1))
            ELSE [found |-> FALSE]
        Found(p) == Colon(SkipSpace(s, p + Len(kw)))
        Pick(p) == IF p = 0 THEN [found |-> FALSE] ELSE Found(p)
    IN Pick(Least({p \in 1..Len(s) : At(s, p, kw) /\ Found(p).found}, 0))

\* re.IGNORECASE: two code points match when they fold to the same one; beside
\* the two cases of a letter, U+0130 and U+0131 match i, U+017F matches s and
\* U+212A matches k
Fold(c) ==
    IF c \in 65..90 THEN c + 32
    ELSE IF c \in {304, 305} THEN 105
    ELSE IF c = 383 THEN 115
    ELSE IF c = 8490 THEN 107
    ELSE c

\* t stands in s at place k, case ignored
AtFold(s, k, t) ==
    /\ k + Len(t) - 1 <= Len(s)
    /\ \A j \in 1..Len(t) : Fold(s[k + j - 1]) = Fold(t[j])

\* after the opening quote at place a - 1:  ([^']+)'\s*,\s*\[(...)\]  with the
\* places of the closing quote, the opening and the closing bracket
CallTail(s, a) ==
    LET Places(b, c, d, e) ==
            [ok |-> /\ b <= Len(s) /\ b > a
                    /\ c <= Len(s) /\ s[c] = 44
                    /\ d <= Len(s) /\ s[d] = 91
                    /\ e <= Len(s),
             quote |-> b, open |-> d, close |-> e]
        Bracket(b, c, d) == Places(b, c, d, PlaceOf(s, 93, d + 1))
        Comma(b, c) == Bracket(b, c, SkipSpace(s, c + 1))
        Quote(b) == Comma(b, SkipSpace(s, b + 1))
    IN Quote(PlaceOf(s, 39, a))

\* line 20: router_group_re.search(content) for
\* Router::group\('([^']+)'\s*,\s*\[([^\]]*)\] under re.IGNORECASE
router_group_re(content) ==
    LET After(p) == CallTail(content, p + Len(S_RouterGroupHead))
        Match(a, t) ==
            [found |-> TRUE,
             prefix |-> SubSeq(content, a, t.quote - 1),
             list |-> SubSeq(content, t.open + 1, t.close - 1)]
        Pick(p) ==
            IF p = 0 THEN [found |-> FALSE]
            ELSE Match(p + Len(S_RouterGroupHead), After(p))
    IN Pick(Least({p \in 1..Len(content) :
                     AtFold(content, p, S_RouterGroupHead) /\ After(p).ok}, 0))

\* (get|post|put|patch|delete) of router_route_re
Verbs ==
    {S_get, S_post,
     <<112, 117, 116>>,  \* 'put'
     <<112, 97, 116, 99, 104>>,  \* 'patch'
     <<100, 101, 108, 101, 116, 101>>}  \* 'delete'

\* the alternatives of (get|post|put|patch|delete)\(' that stand at place k
VerbsAt(s, k) == {v \in Verbs : AtFold(s, k, v \o <<40, 39>>)}

\* line 21: router_route_re.search(content, k - 1), the leftmost match from place
\* k on of Router::(get|post|put|patch|delete)\('([^']+)'\s*,\s*\[([^\]]+)\]
\* under re.IGNORECASE; end is the place of the closing bracket
router_route_re(content, k) ==
    LET Match(v, len, a, t) ==
            IF t.ok /\ t.close > t.open + 1
            THEN [found |-> TRUE,
                  verb |-> SubSeq(content, v, v + len - 1),
                  path |-> SubSeq(content, a, t.quote - 1),
                  handler |-> SubSeq(content, t.open + 1, t.close - 1),
                  end |-> t.close]
            ELSE [found |-> FALSE]
        Verb(v, len) == Match(v, len, v + len + 2, CallTail(content, v + len + 2))
        Call(v, vs) ==
            IF vs = {} THEN [found |-> FALSE] ELSE Verb(v, Len(CHOOSE w \in vs : TRUE))
        Found(p) == Call(p + Len(S_Router), VerbsAt(content, p + Len(S_Router)))
        Pick(p) == IF p = 0 THEN [found |-> FALSE] ELSE Found(p)
    IN Pick(Least({p \in k..Len(content) :
                     AtFold(content, p, S_Router) /\ Found(p).found}, 0))

RECURSIVE FindIter(_, _)
\* line 139: router_route_re.finditer(content) from place k on, the matches from
\* left to right, each search starting behind the match before it
FindIter(content, k) ==
    LET Rest(m) == IF m.found THEN <<m>> \o FindIter(content, m.end + 1) ELSE <<>>
    IN Rest(router_route_re(content, k))

----------------------------------------------------------------------------
(* parse_route_args *)

\* lines 46-48: the middleware list of the annotation
KwList(arg_text) ==
    LET Names(middleware_match) ==
            IF middleware_match.found THEN MiddlewareNames(middleware_match.list)
            ELSE <<>>
    IN Names(KwBracket(arg_text, <<109, 105, 100, 100, 108, 101, 119, 97, 114, 101>>))

\* lines 28-50
ParseRouteArgs(arg_text) ==
    LET First(strings) == IF strings # <<>> THEN strings[1] ELSE <<>>
    IN [path |-> First(string_re(arg_text)),
        method |-> Upper(KwQuoted(arg_text, <<109, 101, 116, 104, 111, 100>>)),
        description |-> KwQuoted(arg_text, <<100, 101, 115, 99, 114, 105, 112, 116, 105, 111, 110>>),
        middleware |-> KwList(arg_text)]

----------------------------------------------------------------------------
(* collect_routes, attribute pass: one line of one file *)

Lookahead == 5

\* lines 103-108: the first function declaration on the lines after line i
FunctionAfter(ls, i) ==
    LET Pick(j) == IF j = 0 THEN <<>> ELSE function_re(ls[j])
    IN Pick(Least({j \in (i + 1)..Min(i + Lookahead, Len(ls)) :
                     function_re(ls[j]) # <<>>}, 0))

\* lines 71-73
ScanStart == [current_group |-> <<>>, current_class |-> <<>>, in_block_comment |-> FALSE]

\* lines 77-78
BlockAfterOpen(stripped, in_block_comment) ==
    IF Contains(stripped, S_open) THEN TRUE ELSE in_block_comment

\* line 83: the line is skipped
SkipLine(stripped, in_block_comment) ==
    \/ in_block_comment
    \/ StartsWith(stripped, S_slc)
    \/ StartsWith(stripped, <<42>>)

\* lines 86-91
GroupAfter(line, current_group) ==
    LET First(group_strings) ==
            IF group_strings # <<>> THEN group_strings[1] ELSE current_group
        Of(group_match) ==
            IF group_match.found THEN First(string_re(group_match.args))
            ELSE current_group
    IN Of(route_group_re(line))

\* lines 93-95
ClassAfter(line, current_class) ==
    LET Of(class_match) == IF class_match # <<>> THEN class_match ELSE current_class
    IN Of(class_re(line))

\* line 110
FullPath(current_group, path_part) == current_group \o path_part

\* lines 99-119: the record of the route annotation of line i
RouteRecord(path, ls, i, current_group, current_class) ==
    LET Record(a, full_path) ==
            [method |-> IF a.method = <<>> THEN S_GET ELSE a.method,
             path |-> IF full_path # <<>> THEN full_path ELSE a.path,
             description |-> a.description,
             controller |-> current_class,
             handler |-> FunctionAfter(ls, i),
             source |-> path,
             middleware |-> a.middleware]
        Of(a) == Record(a, FullPath(current_group, a.path))
    IN Of(ParseRouteArgs(route_re(ls[i]).args))

\* lines 75-120: the body of the loop for line i; st is the scan state, out the
\* records appended; stripped is line.lstrip(), ib is in_block_comment behind
\* line 78, g and c are current_group and current_class behind line 95
ProcessLine(st, path, ls, i) ==
    LET Scanned(g, c, ib) ==
            [st |-> [current_group |-> g, current_class |-> c,
                     in_block_comment |-> ib],
             out |-> IF route_re(ls[i]).found
                     THEN <<RouteRecord(path, ls, i, g, c)>>
                     ELSE <<>>]
        Body(stripped, ib) ==
            IF Contains(stripped, S_close)
            THEN [st |-> [st EXCEPT !.in_block_comment = FALSE], out |-> <<>>]
            ELSE IF SkipLine(stripped, ib)
            THEN [st |-> [st EXCEPT !.in_block_comment = ib], out |-> <<>>]
            ELSE Scanned(GroupAfter(ls[i], st.current_group),
                         ClassAfter(ls[i], st.current_class), ib)
        Line(stripped) == Body(stripped, BlockAfterOpen(stripped, st.in_block_comment))
    IN Line(LstripStr(ls[i]))

RECURSIVE ScanLinesFrom(_, _, _, _)
\* lines 75-120 for the lines i..len: the records with the line each came from
ScanLinesFrom(st, path, ls, i) ==
    LET Rest(r) ==
            [k \in DOMAIN r.out |-> [rec |-> r.out[k], line |-> i]]
            \o ScanLinesFrom(r.st, path, ls, i + 1)
    IN IF i > Len(ls) THEN <<>> ELSE Rest(ProcessLine(st, path, ls, i))

\* lines 68-120 for one file with this text
ScanFileA(path, text) == ScanLinesFrom(ScanStart, path, ReadLines(text), 1)

----------------------------------------------------------------------------
(* collect_routes, routes.php pass: one file *)

\* lines 131-137: router_group_re.search(content), the leftmost match if any, and
\* the names split out of its bracket text
GroupOf(content) ==
    LET Of(group_match) ==
            IF group_match.found
            THEN [prefix |-> group_match.prefix,
                  middleware |-> MiddlewareNames(group_match.list)]
            ELSE [prefix |-> <<>>, middleware |-> <<>>]
    IN Of(router_group_re(content))

\* lines 140-152: the record of one router_route_re match
RouterRecord(path, grp, match) ==
    [method |-> Upper(match.verb),
     path |-> grp.prefix \o match.path,
     description |-> <<82, 111, 117, 116, 101, 114, 32, 114, 111, 117, 116, 101>>,
     controller |-> Strip(match.handler),
     handler |-> <<>>,
     source |-> path,
     middleware |-> grp.middleware]

\* lines 129-153 for one file with this text
ScanFileB(path, text) ==
    LET Records(grp, matches) ==
            [k \in DOMAIN matches |-> RouterRecord(path, grp, matches[k])]
        Of(content) == Records(GroupOf(content), FindIter(content, 1))
    IN Of(Translate(text))

----------------------------------------------------------------------------
(* write_markdown *)

\* the sort key of line 159: (r['path'], r['method'])
KeyLess(r1, r2) ==
    \/ StrLess(r1.path, r2.path)
    \/ r1.path = r2.path /\ StrLess(r1.method, r2.method)

RECURSIVE InsertStable(_, _)
\* r goes behind every record whose key is not greater: sorted() is stable
InsertStable(sorted, r) ==
    IF sorted = <<>> THEN <<r>>
    ELSE IF KeyLess(r, Head(sorted)) THEN <<r>> \o sorted
    ELSE <<Head(sorted)>> \o InsertStable(Tail(sorted), r)

RECURSIVE SortInto(_, _)
SortInto(acc, rs) ==
    IF rs = <<>> THEN acc ELSE SortInto(InsertStable(acc, Head(rs)), Tail(rs))

\* line 159
SortRoutes(rs) == SortInto(<<>>, rs)

\* line 161
IsAttrSource(r) == EndsWith(r.source, S_php) /\ ~Contains(r.source, S_routes_php)

\* line 162
IsRouterSource(r) == EndsWith(r.source, S_routes_php)

RECURSIVE SortStrings(_)
\* sorted() of distinct strings
SortStrings(S) ==
    LET first == CHOOSE s \in S : \A t \in S : s = t \/ StrLess(s, t)
    IN IF S = {} THEN <<>> ELSE <<first>> \o SortStrings(S \ {first})

\* lines 213-227: the lines of one record; current_path is the path of the
\* record before it
EntryLines(r, current_path) ==
    (IF ~current_path.set \/ r.path # current_path.path
     THEN <<[t |-> "h2", text |-> r.path]>> ELSE <<>>)
    \o <<[t |-> "route", method |-> r.method,
          text |-> IF r.description # <<>> THEN r.description ELSE <<78, 111, 32, 100, 101, 115, 99, 114, 105, 112, 116, 105, 111, 110>>]>>
    \o (IF r.controller # <<>> \/ r.handler # <<>>
        THEN <<[t |-> "handler",
                text |-> IF r.handler # <<>>
                         THEN r.controller \o <<58, 58>> \o r.handler
                         ELSE r.controller]>>
        ELSE <<>>)
    \o (IF r.middleware # <<>> THEN <<[t |-> "middleware", list |-> r.middleware]>>
        ELSE <<>>)
    \o <<[t |-> "source", text |-> r.source], [t |-> "blank"]>>

RECURSIVE EntriesFrom(_, _)
EntriesFrom(rs, current_path) ==
    IF rs = <<>> THEN <<>>
    ELSE EntryLines(Head(rs), current_path)
         \o EntriesFrom(Tail(rs), [set |-> TRUE, path |-> Head(rs).path])

\* lines 212-227; current_path is None before the first record
RenderEntries(rs) == EntriesFrom(rs, [set |-> FALSE, path |-> <<>>])

----------------------------------------------------------------------------
(* Inputs *)

\* the most lines the files of one attribute-pass run hold together
MaxLines == 3

\* '#[RouteGroup('/api')]\n'
L_group ==
    <<35, 91, 82, 111, 117, 116, 101, 71, 114, 111, 117, 112, 40, 39, 47, 97, 112,
      105, 39, 41, 93, 10>>
\* '#[RouteGroup('/v2')]\n'
L_groupV2 ==
    <<35, 91, 82, 111, 117, 116, 101, 71, 114, 111, 117, 112, 40, 39, 47, 118, 50,
      39, 41, 93, 10>>
\* '#[RouteGroup()]\n'
L_groupNoPrefix ==
    <<35, 91, 82, 111, 117, 116, 101, 71, 114, 111, 117, 112, 40, 41, 93, 10>>
\* '    #[Route('/x', method: 'post', description: 'list', middleware: ['auth', 'throttle:60,1'])]\n'
L_route ==
    <<32, 32, 32, 32, 35, 91, 82, 111, 117, 116, 101, 40, 39, 47, 120, 39, 44, 32,
      109, 101, 116, 104, 111, 100, 58, 32, 39, 112, 111, 115, 116, 39, 44, 32, 100,
      101, 115, 99, 114, 105, 112, 116, 105, 111, 110, 58, 32, 39, 108, 105, 115,
      116, 39, 44, 32, 109, 105, 100, 100, 108, 101, 119, 97, 114, 101, 58, 32, 91,
      39, 97, 117, 116, 104, 39, 44, 32, 39, 116, 104, 114, 111, 116, 116, 108, 101,
      58, 54, 48, 44, 49, 39, 93, 41, 93, 10>>
\* '#[Route('/x')]\n'
L_plainRoute == <<35, 91, 82, 111, 117, 116, 101, 40, 39, 47, 120, 39, 41, 93, 10>>
\* '/* #[Route('/x')]\n'
L_openRoute ==
    <<47, 42, 32, 35, 91, 82, 111, 117, 116, 101, 40, 39, 47, 120, 39, 41, 93, 10>>
\* '#[Route('/x')] */\n'
L_routeClose ==
    <<35, 91, 82, 111, 117, 116, 101, 40, 39, 47, 120, 39, 41, 93, 32, 42, 47, 10>>
L_slcOpen == <<47, 47, 32, 47, 42, 10>>  \* '// /*\n'
\* '    // #[Route('/x')]\n'
L_slcRoute ==
    <<32, 32, 32, 32, 47, 47, 32, 35, 91, 82, 111, 117, 116, 101, 40, 39, 47, 120,
      39, 41, 93, 10>>
L_class == <<99, 108, 97, 115, 115, 32, 72, 111, 109, 101, 10>>  \* 'class Home\n'
\* '    function list(\n'
L_func ==
    <<32, 32, 32, 32, 102, 117, 110, 99, 116, 105, 111, 110, 32, 108, 105, 115, 116,
      40, 10>>
\* '/* #[RouteGroup('/v2')] */\n'
L_inlineGroup ==
    <<47, 42, 32, 35, 91, 82, 111, 117, 116, 101, 71, 114, 111, 117, 112, 40, 39,
      47, 118, 50, 39, 41, 93, 32, 42, 47, 10>>
\* ' * class Admin\n'
L_starClass == <<32, 42, 32, 99, 108, 97, 115, 115, 32, 65, 100, 109, 105, 110, 10>>
\* '#[Route('/files/*')]\n'
L_starPath ==
    <<35, 91, 82, 111, 117, 116, 101, 40, 39, 47, 102, 105, 108, 101, 115, 47, 42,
      39, 41, 93, 10>>
\* '#[Route('/a)]b')]\n'
L_parenPath ==
    <<35, 91, 82, 111, 117, 116, 101, 40, 39, 47, 97, 41, 93, 98, 39, 41, 93, 10>>
L_reopen == <<47, 42, 32, 97, 32, 42, 47, 32, 47, 42, 32, 98, 10>>  \* '/* a */ /* b\n'
L_close == <<32, 42, 47, 10>>  \* ' */\n'
\* '#[Route('/x', description: 'new class rooms')]\n'
L_wordsInText ==
    <<35, 91, 82, 111, 117, 116, 101, 40, 39, 47, 120, 39, 44, 32, 100, 101, 115,
      99, 114, 105, 112, 116, 105, 111, 110, 58, 32, 39, 110, 101, 119, 32, 99, 108,
      97, 115, 115, 32, 114, 111, 111, 109, 115, 39, 41, 93, 10>>

\* the lines of the files that are scanned line by line: two group prefixes, a
\* group annotation without one, routes in and after comments, a comment that
\* reopens on the line that closes it, comment markers and a parenthesis inside
\* string literals
LineSet ==
    {L_group, L_groupV2, L_groupNoPrefix, L_route, L_openRoute, L_routeClose,
     L_slcOpen, L_slcRoute, L_class, L_inlineGroup, L_starClass, L_starPath,
     L_parenPath, L_reopen, L_close}

\* the texts of up to m lines
TextsUpTo(m) ==
    {FlattenSeq(ls) : ls \in UNION {[1..k -> LineSet] : k \in 0..m}}

\* paths are written relative to ROOT\backend
\* 'app\\Controllers'
D_appCtl == <<97, 112, 112, 92, 67, 111, 110, 116, 114, 111, 108, 108, 101, 114, 115>>
\* 'app\\Console\\Commands'
D_appCmd ==
    <<97, 112, 112, 92, 67, 111, 110, 115, 111, 108, 101, 92, 67, 111, 109, 109, 97,
      110, 100, 115>>
D_auth == <<109, 111, 100, 117, 108, 101, 115, 92, 65, 117, 116, 104>>  \* 'modules\\Auth'
\* 'modules\\User\\Controllers'
D_userCtl ==
    <<109, 111, 100, 117, 108, 101, 115, 92, 85, 115, 101, 114, 92, 67, 111, 110,
      116, 114, 111, 108, 108, 101, 114, 115>>

F_home == [dir |-> D_appCtl, name |-> <<72, 111, 109, 101, 46, 112, 104, 112>>]
F_admin == [dir |-> D_appCtl, name |-> <<65, 100, 109, 105, 110, 46, 112, 104, 112>>]
F_notes == [dir |-> D_appCtl, name |-> <<110, 111, 116, 101, 115, 46, 116, 120, 116>>]
F_make == [dir |-> D_appCmd, name |-> <<77, 97, 107, 101, 77, 111, 100, 117, 108, 101, 67, 111, 109, 109, 97, 110, 100, 46, 112, 104, 112>>]
F_routes == [dir |-> D_auth, name |-> S_routes_php]
F_user == [dir |-> D_userCtl, name |-> <<85, 115, 101, 114, 46, 112, 104, 112>>]

Files == {F_home, F_admin, F_notes, F_make, F_routes, F_user}

FilePath(f) == PathJoin(f.dir, f.name)

\* the files the line-by-line runs scan, in the order they are walked
StyleAFiles == <<FilePath(F_home), FilePath(F_admin)>>

----------------------------------------------------------------------------
(* Values of the state before anything is written or found *)

Untouched == [written |-> FALSE]
NoGroup == [prefix |-> <<>>, middleware |-> <<>>]

----------------------------------------------------------------------------
(* The attribute pass, line by line *)

InitStyleA ==
    /\ utility = "scanner"
    /\ pc = "lines"
    /\ fs = <<>>
    /\ doc = <<>>
    /\ visitedA = {}
    /\ visitedB = {}
    /\ routes = <<>>
    /\ files_with_routes = {}
    /\ origin = <<>>
    /\ out = Untouched
    /\ opens = 0
    /\ sections = <<>>
    /\ todo = <<>>
    /\ fileNo = 0
    /\ lines = <<>>
    /\ n = 1
    /\ scan = [current_group |-> <<>>, current_class |-> <<>>,
               in_block_comment |-> FALSE]
    /\ group = NoGroup
    /\ used = 0

\* lines 65-73: the next file is opened and read, the scan state is reset
OpenFileA ==
    /\ fileNo < Len(StyleAFiles)
    /\ n > Len(lines)
    /\ LET Opened(ls) == lines' = ls /\ used' = used + Len(ls)
       IN \E text \in TextsUpTo(MaxLines - used) : Opened(ReadLines(text))
    /\ fileNo' = fileNo + 1
    /\ n' = 1
    /\ scan' = ScanStart
    /\ UNCHANGED <<utility, pc, fs, doc, visitedA, visitedB, routes,
                   files_with_routes, origin, out, opens, sections, todo, group>>

\* lines 75-120: one turn of the loop over the lines
ScanLine ==
    /\ fileNo >= 1
    /\ n <= Len(lines)
    /\ LET Step(r) ==
              /\ scan' = r.st
              /\ routes' = routes \o r.out
              /\ origin' = origin \o [k \in DOMAIN r.out |->
                                        [style |-> "A", line |-> n]]
              /\ files_with_routes' =
                    IF r.out # <<>> THEN files_with_routes \cup {StyleAFiles[fileNo]}
                    ELSE files_with_routes
       IN Step(ProcessLine(scan, StyleAFiles[fileNo], lines, n))
    /\ n' = n + 1
    /\ UNCHANGED <<utility, pc, fs, doc, visitedA, visitedB, out, opens, sections,
                   todo, fileNo, lines, group, used>>

NextStyleA == OpenFileA \/ ScanLine

SpecStyleA == InitStyleA /\ [][NextStyleA]_vars

----------------------------------------------------------------------------
(* The scanner's file system *)

\* lines 6-15
APP_DIRS ==
    <<<<97, 112, 112>>,  \* 'app'
      <<109, 111, 100, 117, 108, 101, 115>>>>  \* 'modules'
CONTROLLER_DIRS ==
    <<D_appCtl,
      \* 'modules\\Auth\\Controllers'
      <<109, 111, 100, 117, 108, 101, 115, 92, 65, 117, 116, 104, 92, 67, 111, 110, 116, 114, 111, 108, 108, 101, 114, 115>>,
      D_userCtl,
      \* 'modules\\Storage\\Controllers'
      <<109, 111, 100, 117, 108, 101, 115, 92, 83, 116, 111, 114, 97, 103, 101, 92, 67, 111, 110, 116, 114, 111, 108, 108, 101, 114, 115>>>>

\* lines 56-58
skipped_files == {FilePath(F_make)}

Absent == [state |-> "absent"]          \* no such file
Unreadable == [state |-> "unreadable"]  \* open() raises OSError
File(text) == [state |-> "file", text |-> text]

\* 'Router::group('/v1', ['auth'], function () {\n'
B_groupV1 ==
    <<82, 111, 117, 116, 101, 114, 58, 58, 103, 114, 111, 117, 112, 40, 39, 47, 118,
      49, 39, 44, 32, 91, 39, 97, 117, 116, 104, 39, 93, 44, 32, 102, 117, 110, 99,
      116, 105, 111, 110, 32, 40, 41, 32, 123, 10>>
\* '    Router::get('/users', [U::class, 'l']);\n'
B_getUsers ==
    <<32, 32, 32, 32, 82, 111, 117, 116, 101, 114, 58, 58, 103, 101, 116, 40, 39,
      47, 117, 115, 101, 114, 115, 39, 44, 32, 91, 85, 58, 58, 99, 108, 97, 115,
      115, 44, 32, 39, 108, 39, 93, 41, 59, 10>>
\* 'Router::get('/x', [U::class, 'l']);\n'
B_getX ==
    <<82, 111, 117, 116, 101, 114, 58, 58, 103, 101, 116, 40, 39, 47, 120, 39, 44,
      32, 91, 85, 58, 58, 99, 108, 97, 115, 115, 44, 32, 39, 108, 39, 93, 41, 59,
      10>>
\* a controller saved with \r\n line ends
\* '#[RouteGroup('/api')]\r\nclass Home\r\n    #[Route('/x', method: 'post')]\r\n    function list(\r\n'
C_groupRoute ==
    <<35, 91, 82, 111, 117, 116, 101, 71, 114, 111, 117, 112, 40, 39, 47, 97, 112,
      105, 39, 41, 93, 13, 10, 99, 108, 97, 115, 115, 32, 72, 111, 109, 101, 13, 10,
      32, 32, 32, 32, 35, 91, 82, 111, 117, 116, 101, 40, 39, 47, 120, 39, 44, 32,
      109, 101, 116, 104, 111, 100, 58, 32, 39, 112, 111, 115, 116, 39, 41, 93, 13,
      10, 32, 32, 32, 32, 102, 117, 110, 99, 116, 105, 111, 110, 32, 108, 105, 115,
      116, 40, 13, 10>>

C_none == L_class \o L_func
C_route == L_class \o L_wordsInText \o L_func
C_router == B_groupV1 \o B_getUsers
C_routerAttr == L_plainRoute \o B_getX

FileSystems ==
    {(F_home :> a) @@ (F_admin :> b) @@ (F_notes :> c) @@ (F_make :> File(C_route))
        @@ (F_routes :> d) @@ (F_user :> e) :
        a \in {Absent, File(C_route), File(C_groupRoute)},
        b \in {Absent, File(C_none), File(C_route)},
        c \in {Absent, File(C_route)},
        d \in {Absent, File(C_router), File(C_routerAttr), Unreadable},
        e \in {Absent, File(C_route), Unreadable}}

\* the directory lies in the tree under base
UnderDir(dir, base) == dir = base \/ StartsWith(dir, base \o <<92>>)

\* the entry of APP_DIRS whose walk yields f
BaseOf(f) == CHOOSE k \in DOMAIN APP_DIRS : UnderDir(f.dir, APP_DIRS[k])

Range(sq) == {sq[k] : k \in DOMAIN sq}

\* the files os.walk may yield next, `visited` being those it has yielded: the
\* bases in the order of APP_DIRS, the directories of a base and the files of a
\* directory in any order, the files of one directory together
WalkNext(fsys, visited) ==
    LET unv == {f \in Files : fsys[f].state # "absent"} \ Range(visited)
    IN {f \in unv :
          /\ \A g \in unv : BaseOf(f) <= BaseOf(g)
          /\ (visited # <<>> /\ \E g \in unv : g.dir = visited[Len(visited)].dir)
                => f.dir = visited[Len(visited)].dir}

Skip == [failed |-> FALSE, recs |-> <<>>]
Failure == [failed |-> TRUE, recs |-> <<>>]

\* lines 62-120 for one walked file: the records, each with its line
AttrPassFile(f, content) ==
    IF ~EndsWith(f.name, S_php) THEN Skip
    ELSE IF FilePath(f) \in skipped_files THEN Skip
    ELSE IF content.state = "unreadable" THEN Failure
    ELSE [failed |-> FALSE, recs |-> ScanFileA(FilePath(f), content.text)]

\* lines 125-153 for one walked file
RouterPassFile(f, content) ==
    IF f.name # S_routes_php THEN Skip
    ELSE IF content.state = "unreadable" THEN Failure
    ELSE LET Recs(rs) == [k \in DOMAIN rs |-> [rec |-> rs[k], line |-> 0]]
         IN [failed |-> FALSE, recs |-> Recs(ScanFileB(FilePath(f), content.text))]

\* files_with_routes.add(path) for every file scanned
CoverageAlways(fwr, path, recs) == fwr \cup {path}

\* lines 120 and 153: files_with_routes.add(path), once per record appended
CoverageAfter(fwr, path, recs) == IF recs # <<>> THEN fwr \cup {path} ELSE fwr

\* lines 164-171
ControllerFiles(fsys) ==
    {FilePath(f) : f \in {g \in Files :
        /\ fsys[g].state # "absent"
        /\ \E k \in DOMAIN CONTROLLER_DIRS : UnderDir(g.dir, CONTROLLER_DIRS[k])
        /\ EndsWith(g.name, S_php)}}

\* lines 159-230: what is written to OUT_PATH (the title, the timestamp and the
\* two fixed lists are the same in every run and left out)
Markdown(rs, fwr, fsys) ==
    LET sorted == SortRoutes(rs)
        controllers_without_routes == SortStrings(ControllerFiles(fsys) \ fwr)
    IN [written |-> TRUE,
        total_routes |-> Len(sorted),
        attr_routes |-> Len(SelectSeq(sorted, IsAttrSource)),
        router_routes |-> Len(SelectSeq(sorted, IsRouterSource)),
        missing_count |-> Len(controllers_without_routes),
        missing |-> controllers_without_routes,
        entries |-> RenderEntries(sorted)]

----------------------------------------------------------------------------
(* The renderer's document *)

\* the most operations a document holds
MaxOps == 3

SecNull == "null"                   \* no "security" key, or null
SecEmpty == "[]"                    \* "security": []
SecSet == "[{bearerAuth: []}]"      \* "security": [{"bearerAuth": []}]
SecVals == {SecNull, SecEmpty, SecSet}

DocPaths == {S_a, <<47, 120>>}  \* '/a', '/x'
DocKeys == {S_get, S_post, S_POST, S_options}

Malformed == [state |-> "malformed"]   \* json.load raises

DocOf(security, pairs, secs) ==
    [state |-> "ok",
     security |-> security,
     paths |-> [p \in {pr[1] : pr \in pairs} |->
                  [k \in {pr[2] : pr \in {q \in pairs : q[1] = p}} |->
                      [security |-> secs[<<p, k>>]]]]]

Docs ==
    {Malformed} \cup
    UNION {UNION {{DocOf(g, pairs, secs) : secs \in [pairs -> SecVals]} :
                     pairs \in {ps \in SUBSET (DocPaths \X DocKeys) :
                                  Cardinality(ps) <= MaxOps}} :
              g \in SecVals}

\* `is not None` in place of truthiness
TruthyNotNull(sec) == sec # SecNull

\* bool(x) of a security value
Truthy(sec) == sec = SecSet

\* a or b
OrElse(a, b) == IF Truthy(a) THEN a ELSE b

\* lines 32-34: the (path, method) keys in the order the loops visit them
OpKeys(paths) ==
    LET sp == SortStrings(DOMAIN paths)
    IN FlattenSeq([i \in DOMAIN sp |->
          LET sm == SortStrings(DOMAIN paths[sp[i]])
          IN [j \in DOMAIN sm |-> <<sp[i], sm[j]>>]])

\* the test of line 35 without lower()
RecognizedExact(method) == method \in Verbs

\* line 35: the method key is rendered
Recognized(method) == Lower(method) \in Verbs

\* lines 37-48: the heading and the Auth line of one operation (its other lines
\* copy fields of the operation)
Section(path, method, op, global_security) ==
    [method |-> Upper(method),
     path |-> path,
     auth |-> IF Truthy(OrElse(op.security, global_security))
              THEN "Required" ELSE "None"]

\* lines 99-100 indented into the loop
RenderDoneAnyTime(keys) == TRUE

\* the loops of lines 32-97 are over: line 99 is reached
RenderDone(keys) == keys = <<>>

----------------------------------------------------------------------------
(* Whole runs of the two scripts *)

Init ==
    /\ utility \in {"scanner", "renderer"}
    /\ pc = IF utility = "scanner" THEN "passA" ELSE "load"
    /\ fs \in (IF utility = "scanner" THEN FileSystems ELSE {<<>>})
    /\ doc \in (IF utility = "renderer" THEN Docs ELSE {<<>>})
    /\ visitedA = <<>>
    /\ visitedB = <<>>
    /\ routes = <<>>
    /\ files_with_routes = {}
    /\ origin = <<>>
    /\ out = Untouched
    /\ opens = 0
    /\ sections = <<>>
    /\ todo = <<>>
    /\ fileNo = 0
    /\ lines = <<>>
    /\ n = 1
    /\ scan = [current_group |-> <<>>, current_class |-> <<>>,
               in_block_comment |-> FALSE]
    /\ group = NoGroup
    /\ used = 0

\* lines 60-120: the attribute pass takes the next file of the walk
WalkA ==
    /\ utility = "scanner"
    /\ pc = "passA"
    /\ LET Walked(f, r) ==
              /\ visitedA' = Append(visitedA, f)
              /\ pc' = IF r.failed THEN "failed" ELSE "passA"
              /\ routes' = routes \o [k \in DOMAIN r.recs |-> r.recs[k].rec]
              /\ origin' = origin \o [k \in DOMAIN r.recs |->
                                        [style |-> "A", line |-> r.recs[k].line]]
              /\ files_with_routes' =
                    CoverageAfter(files_with_routes, FilePath(f), r.recs)
       IN \E f \in WalkNext(fs, visitedA) : Walked(f, AttrPassFile(f, fs[f]))
    /\ UNCHANGED <<utility, fs, doc, visitedB, out, opens, sections, todo, fileNo,
                   lines, n, scan, group, used>>

\* line 123: the first walk is over
EndPassA ==
    /\ utility = "scanner"
    /\ pc = "passA"
    /\ WalkNext(fs, visitedA) = {}
    /\ pc' = "passB"
    /\ UNCHANGED <<utility, fs, doc, visitedA, visitedB, routes, files_with_routes,
                   origin, out, opens, sections, todo, fileNo, lines, n, scan,
                   group, used>>

\* lines 123-153: the routes.php pass takes the next file of the walk
WalkB ==
    /\ utility = "scanner"
    /\ pc = "passB"
    /\ LET Walked(f, r) ==
              /\ visitedB' = Append(visitedB, f)
              /\ pc' = IF r.failed THEN "failed" ELSE "passB"
              /\ routes' = routes \o [k \in DOMAIN r.recs |-> r.recs[k].rec]
              /\ origin' = origin \o [k \in DOMAIN r.recs |->
                                        [style |-> "B", line |-> r.recs[k].line]]
              /\ files_with_routes' =
                    CoverageAfter(files_with_routes, FilePath(f), r.recs)
       IN \E f \in WalkNext(fs, visitedB) : Walked(f, RouterPassFile(f, fs[f]))
    /\ UNCHANGED <<utility, fs, doc, visitedA, out, opens, sections, todo, fileNo,
                   lines, n, scan, group, used>>

\* line 155: collect_routes returns
EndPassB ==
    /\ utility = "scanner"
    /\ pc = "passB"
    /\ WalkNext(fs, visitedB) = {}
    /\ pc' = "write"
    /\ UNCHANGED <<utility, fs, doc, visitedA, visitedB, routes, files_with_routes,
                   origin, out, opens, sections, todo, fileNo, lines, n, scan,
                   group, used>>

\* lines 158-230: write_markdown
WriteMarkdown ==
    /\ utility = "scanner"
    /\ pc = "write"
    /\ out' = Markdown(routes, files_with_routes, fs)
    /\ opens' = opens + 1
    /\ pc' = "done"
    /\ UNCHANGED <<utility, fs, doc, visitedA, visitedB, routes, files_with_routes,
                   origin, sections, todo, fileNo, lines, n, scan, group, used>>

\* lines 7-31 of the renderer: the document is read and parsed
LoadSpec ==
    /\ utility = "renderer"
    /\ pc = "load"
    /\ IF doc.state = "malformed"
       THEN pc' = "failed" /\ todo' = todo
       ELSE pc' = "render" /\ todo' = OpKeys(doc.paths)
    /\ UNCHANGED <<utility, fs, doc, visitedA, visitedB, routes, files_with_routes,
                   origin, out, opens, sections, fileNo, lines, n, scan, group, used>>

\* lines 34-97 of the renderer: one turn of the inner loop
RenderOp ==
    /\ utility = "renderer"
    /\ pc = "render"
    /\ todo # <<>>
    /\ LET path == Head(todo)[1]
           method == Head(todo)[2]
       IN sections' =
             IF Recognized(method)
             THEN Append(sections,
                         Section(path, method, doc.paths[path][method], doc.security))
             ELSE sections
    /\ todo' = Tail(todo)
    /\ UNCHANGED <<utility, pc, fs, doc, visitedA, visitedB, routes,
                   files_with_routes, origin, out, opens, fileNo, lines, n, scan,
                   group, used>>

\* lines 99-100 of the renderer: the file is opened and written
WriteDetails ==
    /\ utility = "renderer"
    /\ pc = "render"
    /\ RenderDone(todo)
    /\ out' = [written |-> TRUE, sections |-> sections]
    /\ opens' = opens + 1
    /\ pc' = "done"
    /\ UNCHANGED <<utility, fs, doc, visitedA, visitedB, routes, files_with_routes,
                   origin, sections, todo, fileNo, lines, n, scan, group, used>>

Next ==
    \/ WalkA
    \/ EndPassA
    \/ WalkB
    \/ EndPassB
    \/ WriteMarkdown
    \/ LoadSpec
    \/ RenderOp
    \/ WriteDetails

Spec == Init /\ [][Next]_vars

----------------------------------------------------------------------------
(* The routes.php pass, match by match *)

\* the most pieces of text the routes.php file of such a run holds
MaxCalls == 3

\* 'Router::group('/v2', [], function () {\n'
B_groupV2 ==
    <<82, 111, 117, 116, 101, 114, 58, 58, 103, 114, 111, 117, 112, 40, 39, 47, 118,
      50, 39, 44, 32, 91, 93, 44, 32, 102, 117, 110, 99, 116, 105, 111, 110, 32, 40,
      41, 32, 123, 10>>
\* 'Router::group('/api', ['throttle:60,1'], function () {\n'
B_groupApi ==
    <<82, 111, 117, 116, 101, 114, 58, 58, 103, 114, 111, 117, 112, 40, 39, 47, 97,
      112, 105, 39, 44, 32, 91, 39, 116, 104, 114, 111, 116, 116, 108, 101, 58, 54,
      48, 44, 49, 39, 93, 44, 32, 102, 117, 110, 99, 116, 105, 111, 110, 32, 40, 41,
      32, 123, 10>>
\* 'Router::Post('/x', [U::class, 'l']);\n'
B_PostX ==
    <<82, 111, 117, 116, 101, 114, 58, 58, 80, 111, 115, 116, 40, 39, 47, 120, 39,
      44, 32, 91, 85, 58, 58, 99, 108, 97, 115, 115, 44, 32, 39, 108, 39, 93, 41,
      59, 10>>
\* 'Router::options('/x', [U::class, 'l']);\n'
B_optionsX ==
    <<82, 111, 117, 116, 101, 114, 58, 58, 111, 112, 116, 105, 111, 110, 115, 40,
      39, 47, 120, 39, 44, 32, 91, 85, 58, 58, 99, 108, 97, 115, 115, 44, 32, 39,
      108, 39, 93, 41, 59, 10>>
\* 'Router::poſt('/x', [U::class, 'l']);\n'
B_longS ==
    <<82, 111, 117, 116, 101, 114, 58, 58, 112, 111, 383, 116, 40, 39, 47, 120, 39,
      44, 32, 91, 85, 58, 58, 99, 108, 97, 115, 115, 44, 32, 39, 108, 39, 93, 41,
      59, 10>>
\* a call written on two lines that end in \r\n
\* 'Router::put('/x',\r\n    [U::class, 'l']);\r\n'
B_putTwoLines ==
    <<82, 111, 117, 116, 101, 114, 58, 58, 112, 117, 116, 40, 39, 47, 120, 39, 44,
      13, 10, 32, 32, 32, 32, 91, 85, 58, 58, 99, 108, 97, 115, 115, 44, 32, 39,
      108, 39, 93, 41, 59, 13, 10>>

BLineSet ==
    {B_groupV1, B_groupV2, B_groupApi, B_getUsers, B_PostX, B_optionsX, B_longS,
     B_putTwoLines, L_class}

InitStyleB ==
    /\ utility = "scanner"
    /\ pc = "read"
    /\ fs = <<>>
    /\ doc = <<>>
    /\ visitedA = <<>>
    /\ visitedB = <<>>
    /\ routes = <<>>
    /\ files_with_routes = {}
    /\ origin = <<>>
    /\ out = Untouched
    /\ opens = 0
    /\ sections = <<>>
    /\ todo = <<>>
    /\ fileNo = 0
    /\ lines = <<>>
    /\ n = 1
    /\ scan = [current_group |-> <<>>, current_class |-> <<>>,
               in_block_comment |-> FALSE]
    /\ group = NoGroup
    /\ used = 0

\* line 130: content = f.read() of the file made of these pieces
Content(ls) == Translate(FlattenSeq(ls))

\* lines 128-137: the file is read and the group call looked for
ReadRoutesFile ==
    /\ pc = "read"
    /\ \E ls \in UNION {[1..k -> BLineSet] : k \in 0..MaxCalls} :
          /\ lines' = ls
          /\ group' = GroupOf(Content(ls))
    /\ n' = 1
    /\ pc' = "matches"
    /\ UNCHANGED <<utility, fs, doc, visitedA, visitedB, routes, files_with_routes,
                   origin, out, opens, sections, todo, fileNo, scan, used>>

\* lines 139-153: one turn of the loop over the matches of router_route_re
EmitRoute ==
    /\ pc = "matches"
    /\ LET Emit(matches) ==
              /\ n <= Len(matches)
              /\ routes' = Append(routes,
                                  RouterRecord(FilePath(F_routes), group, matches[n]))
       IN Emit(FindIter(Content(lines), 1))
    /\ origin' = Append(origin, [style |-> "B", line |-> 0])
    /\ files_with_routes' = files_with_routes \cup {FilePath(F_routes)}
    /\ n' = n + 1
    /\ UNCHANGED <<utility, pc, fs, doc, visitedA, visitedB, out, opens, sections,
                   todo, fileNo, lines, scan, group, used>>

NextStyleB == ReadRoutesFile \/ EmitRoute

SpecStyleB == InitStyleB /\ [][NextStyleB]_vars

----------------------------------------------------------------------------
(* Claims about the attribute pass (SpecStyleA) *)

\* The claims speak of PHP text: a quote opens a string literal that ends at the
\* next quote, // opens a comment that ends with the line, /* opens a block
\* comment that the next */ closes. A /* or */ inside a string literal or behind
\* // is no comment token.

RECURSIVE Lex(_, _, _, _)
\* line l read from place k on, with a block comment open at k iff inside: seen,
\* whether a part of the line lies in a block comment (seen so far as given);
\* inside, whether a block comment is open at the end of the line
Lex(l, k, inside, seen) ==
    IF inside
    THEN LET Closed(c) ==
                 IF c = 0 THEN [seen |-> TRUE, inside |-> TRUE]
                 ELSE Lex(l, c + 2, FALSE, TRUE)
         IN Closed(Find(l, S_close, k))
    ELSE LET Literal(q) ==
                 IF q > Len(l) THEN [seen |-> seen, inside |-> FALSE]
                 ELSE Lex(l, q + 1, FALSE, seen)
             Token(p) ==
                 IF p = 0 \/ At(l, p, S_slc) THEN [seen |-> seen, inside |-> FALSE]
                 ELSE IF l[p] = 39 THEN Literal(PlaceOf(l, 39, p + 1))
                 ELSE Lex(l, p + 2, TRUE, TRUE)
         IN Token(Least({p \in k..Len(l) :
                           l[p] = 39 \/ At(l, p, S_open) \/ At(l, p, S_slc)}, 0))

RECURSIVE CommentBefore(_, _)
\* a block comment is open where line k of the file begins
CommentBefore(ls, k) ==
    IF k = 1 THEN FALSE
    ELSE Lex(ls[k - 1], 1, CommentBefore(ls, k - 1), FALSE).inside

\* line k is one of the lines N..M of a block comment that opens on line N and
\* closes on line M
InBlockComment(ls, k) ==
    Lex(ls[k], 1, CommentBefore(ls, k), CommentBefore(ls, k)).seen

\* the first non-blank characters of the line are //
LineComment(l) == StartsWith(LstripStr(l), S_slc)

\* the line is a // line or a line of the form * ... as block comments are laid out
CommentLine(l) == LineComment(l) \/ StartsWith(LstripStr(l), <<42>>)

\* line k is one on which annotations are detected
Detected(ls, k) == ~InBlockComment(ls, k) /\ ~LineComment(ls[k])

RECURSIVE ArgsEnd(_, _)
\* the place of the first ) from k on that stands outside the string literals
ArgsEnd(s, k) ==
    LET Literal(q) == IF q > Len(s) THEN Len(s) + 1 ELSE ArgsEnd(s, q + 1)
        Token(p) ==
            IF p > Len(s) \/ s[p] = 41 THEN p ELSE Literal(PlaceOf(s, 39, p + 1))
    IN Token(Least({p \in k..Len(s) : s[p] \in {39, 41}}, Len(s) + 1))

\* the line holds an annotation that begins with head
HasAnnotation(l, head) == Contains(l, head)

\* the first string literal among the arguments of the annotation of the line
\* that begins with head, '' when it has none
FirstLiteral(l, head) ==
    LET a == Find(l, head, 1) + Len(head)
        strs == string_re(SubSeq(l, a, ArgsEnd(l, a) - 1))
    IN IF strs = <<>> THEN <<>> ELSE strs[1]

\* the lines before line k on which a group annotation is detected
GroupLines(ls, k) ==
    {j \in 1..(k - 1) : Detected(ls, j) /\ HasAnnotation(ls[j], <<35, 91, 82, 111, 117, 116, 101, 71, 114, 111, 117, 112, 40>>)}

\* the prefix set by the nearest of them, '' when there is none
NearestPrefix(ls, k) ==
    IF GroupLines(ls, k) = {} THEN <<>>
    ELSE LET j == CHOOSE j \in GroupLines(ls, k) : \A j2 \in GroupLines(ls, k) : j2 <= j
         IN FirstLiteral(ls[j], <<35, 91, 82, 111, 117, 116, 101, 71, 114, 111, 117, 112, 40>>)

\* C1: every record the attribute pass appends has as path the prefix set by the
\* nearest group annotation detected on an earlier line of the file being scanned,
\* followed by the first string literal of its route annotation; with no group
\* annotation detected earlier in this file the path is that literal alone,
\* whatever earlier files held.
C1_PathIsNearestPrefixPlusFragment ==
    [][ScanLine =>
          /\ Len(routes') <= Len(routes) + 1
          /\ Len(routes') = Len(routes) + 1 =>
                /\ routes'[Len(routes')].path =
                      NearestPrefix(lines, n) \o FirstLiteral(lines[n], <<35, 91, 82, 111, 117, 116, 101, 40>>)
                /\ routes'[Len(routes')].source = StyleAFiles[fileNo]]_vars

\* C2: on every line N..M of a block comment that opens on line N and closes on
\* line M, the close line included, the scan changes neither the group prefix nor
\* the owning class and appends no record; and on line M + 1, when it is no line
\* of a comment itself, annotations are detected again.
C2_BlockCommentSuppresses ==
    [][ScanLine =>
          /\ InBlockComment(lines, n) =>
                /\ scan'.current_group = scan.current_group
                /\ scan'.current_class = scan.current_class
                /\ routes' = routes
          /\ (/\ n > 1
              /\ InBlockComment(lines, n - 1)
              /\ ~InBlockComment(lines, n)
              /\ ~CommentLine(lines[n])) =>
                /\ route_re(lines[n]).found => Len(routes') = Len(routes) + 1
                /\ scan'.current_group = GroupAfter(lines[n], scan.current_group)
                /\ scan'.current_class = ClassAfter(lines[n], scan.current_class)]_vars

\* C10: a line whose first non-blank characters are // is skipped and leaves the
\* NORMAL / IN_BLOCK_COMMENT state as it was, whatever text it holds; and the scan
\* goes from NORMAL to IN_BLOCK_COMMENT only on a line with a block-comment open
\* that is not closed on the same line.
C10_LineCommentKeepsState ==
    [][ScanLine =>
          /\ LineComment(lines[n]) =>
                /\ scan'.in_block_comment = scan.in_block_comment
                /\ routes' = routes
          /\ (~scan.in_block_comment /\ scan'.in_block_comment) =>
                Lex(lines[n], 1, FALSE, FALSE).inside]_vars

----------------------------------------------------------------------------
(* Claims about the routes.php pass (SpecStyleB) *)

\* the name between Router:: and the parenthesis of a piece that is a call of a
\* method of Router, '' for any other piece
CalledName(piece) ==
    LET t == LstripStr(piece)
        a == Len(S_Router) + 1
        e == SkipWord(t, a)
    IN IF StartsWith(t, S_Router) /\ e > a /\ e <= Len(t) /\ t[e] = 40
       THEN SubSeq(t, a, e - 1) ELSE <<>>

\* PHP takes the name of a method in any case of its ASCII letters
AsciiLower(s) == [k \in DOMAIN s |-> IF s[k] \in 65..90 THEN s[k] + 32 ELSE s[k]]

\* the pieces that hold a Router::get/post/put/patch/delete call
CallPlaces(ls) == {k \in DOMAIN ls : AsciiLower(CalledName(ls[k])) \in Verbs}

\* the pieces that hold a Router::group call
GroupPlaces(ls) == {k \in DOMAIN ls : AsciiLower(CalledName(ls[k])) = <<103, 114, 111, 117, 112>>}

\* the j-th call of the file
NthCall(ls, j) ==
    CHOOSE k \in CallPlaces(ls) : Cardinality({c \in CallPlaces(ls) : c <= k}) = j

\* the text between the first [ and the ] after it
ListText(piece) ==
    LET a == PlaceOf(piece, 91, 1)
    IN SubSeq(piece, a + 1, PlaceOf(piece, 93, a) - 1)

\* the matches of the file have all been turned into records
StyleBDone == pc = "matches" /\ n > Len(FindIter(Content(lines), 1))

\* C8: when the routes.php pass is through with a file, there is one record per
\* Router::get/post/put/patch/delete call of the file, in the order of the calls;
\* its path is the prefix of the first Router::group call of the file ('' when the
\* file has none) followed by the call's path, its method the verb in upper case,
\* its middleware the list of that group call, wherever the group call stands.
C8_RouterRecords ==
    StyleBDone =>
        LET gs == GroupPlaces(lines)
            first == lines[CHOOSE k \in gs : \A j \in gs : k <= j]
        IN /\ Len(routes) = Cardinality(CallPlaces(lines))
           /\ \A j \in DOMAIN routes :
                 LET call == lines[NthCall(lines, j)]
                 IN /\ routes[j].path =
                          (IF gs = {} THEN <<>> ELSE string_re(first)[1])
                          \o string_re(call)[1]
                    /\ routes[j].method = Upper(CalledName(call))
                    /\ routes[j].middleware =
                          (IF gs = {} THEN <<>> ELSE string_re(ListText(first)))

----------------------------------------------------------------------------
(* Claims about whole runs (Spec) *)

ScannerDone == utility = "scanner" /\ pc = "done"
RendererDone == utility = "renderer" /\ pc = "done"

\* C3: in the report of a finished scan, a controller file is listed as
\* potentially missing routes exactly when no record has it as its source; a
\* listed file is a controller file, is listed once and is the Source of no
\* entry; and the count of controllers without routes is the length of the list.
C3_MissingIsSetDifference ==
    ScannerDone =>
        /\ \A f \in ControllerFiles(fs) :
              f \in Range(out.missing) <=> ~\E k \in DOMAIN routes : routes[k].source = f
        /\ Range(out.missing) \subseteq ControllerFiles(fs)
        /\ Cardinality(Range(out.missing)) = Len(out.missing)
        /\ \A k \in DOMAIN out.entries :
              out.entries[k].t = "source" => out.entries[k].text \notin Range(out.missing)
        /\ out.missing_count = Len(out.missing)

\* C3 witness: a finished scan lists one controller file and not another, which
\* is the source of a record.
C3_Witness ==
    /\ ScannerDone
    /\ FilePath(F_admin) \in Range(out.missing)
    /\ FilePath(F_home) \in ControllerFiles(fs)
    /\ FilePath(F_home) \notin Range(out.missing)
    /\ \E k \in DOMAIN routes : routes[k].source = FilePath(F_home)

\* the (path, method key) pairs of the document
DocPairs == UNION {{<<p, k>> : k \in DOMAIN doc.paths[p]} : p \in DOMAIN doc.paths}

\* the order of the keys: by path, then by method key, code point by code point
PairLess(a, b) == StrLess(a[1], b[1]) \/ (a[1] = b[1] /\ StrLess(a[2], b[2]))

\* the place of pair pr among the pairs of S in that order
Rank(S, pr) == 1 + Cardinality({q \in S : PairLess(q, pr)})

\* the pairs whose method key is one of the five verbs in any case
RenderedPairs == {pr \in DocPairs : Lower(pr[2]) \in Verbs}

\* C4 as stated: one section per pair whose method key is one of get, post, put,
\* patch, delete, no section for any other key, and the sections in the order of
\* their paths and, within a path, of their methods.
C4_Original ==
    RendererDone =>
        LET S == {pr \in DocPairs : pr[2] \in Verbs}
            secs == out.sections
        IN /\ \A pr \in S :
                 Cardinality({k \in DOMAIN secs :
                     secs[k].path = pr[1] /\ secs[k].method = Upper(pr[2])}) = 1
           /\ \A k \in DOMAIN secs :
                 \E pr \in S : secs[k].path = pr[1] /\ secs[k].method = Upper(pr[2])
           /\ \A j, k \in DOMAIN secs :
                 j < k => \/ StrLess(secs[j].path, secs[k].path)
                          \/ /\ secs[j].path = secs[k].path
                             /\ ~StrLess(secs[k].method, secs[j].method)

\* C4, amended: the output holds one section per pair whose method key is, in
\* any case, one of the five verbs, and none for any other key; the sections
\* stand in the order of their paths and, within a path, of their method keys as
\* the document writes them, compared code point by code point (an upper-case
\* key before a lower-case one).
C4_SectionsPerRecognizedKey ==
    RendererDone =>
        /\ Len(out.sections) = Cardinality(RenderedPairs)
        /\ \A pr \in RenderedPairs :
              /\ out.sections[Rank(RenderedPairs, pr)].path = pr[1]
              /\ out.sections[Rank(RenderedPairs, pr)].method = Upper(pr[2])

\* C4 witness: a path with the keys POST, get and options is rendered as the
\* sections POST and GET, in this order.
C4_Witness ==
    /\ RendererDone
    /\ S_a \in DOMAIN doc.paths
    /\ DOMAIN doc.paths[S_a] = {S_POST, S_get, S_options}
    /\ Len(out.sections) = 2
    /\ out.sections[1].method = S_POST
    /\ out.sections[2].method = S_GET

\* C5: the Auth line of an operation reads Required exactly when the operation
\* has a security requirement of its own (a non-empty "security") or the
\* document's default security is neither null nor empty, and None otherwise.
C5_AuthRequiredIff ==
    RendererDone =>
        \A pr \in RenderedPairs :
            LET op == doc.paths[pr[1]][pr[2]]
                sec == out.sections[Rank(RenderedPairs, pr)]
            IN /\ sec.auth \in {"Required", "None"}
               /\ sec.auth = "Required" <=>
                     \/ op.security \notin {SecNull, SecEmpty}
                     \/ doc.security \notin {SecNull, SecEmpty}

\* C5 witness: under a document without default security, an operation with a
\* security requirement reads Required and one with an empty list reads None.
C5_Witness ==
    /\ RendererDone
    /\ doc.security = SecNull
    /\ \E p \in DOMAIN doc.paths :
          /\ DOMAIN doc.paths[p] = {S_get, S_post}
          /\ doc.paths[p][S_get].security = SecSet
          /\ doc.paths[p][S_post].security = SecEmpty
          /\ Len(out.sections) = 2
          /\ out.sections[1].auth = "Required"
          /\ out.sections[2].auth = "None"

\* the files of the file system in the order of their paths, one of the orders
\* os.walk may take
SortedWalk(fsys) ==
    LET ps == SortStrings({FilePath(f) : f \in {g \in Files : fsys[g].state # "absent"}})
    IN [k \in DOMAIN ps |-> CHOOSE f \in Files : FilePath(f) = ps[k]]

\* the records collect_routes returns when both walks take this order
RoutesInOrder(fsys, order) ==
    LET a == FlattenSeq([k \in DOMAIN order |->
                 AttrPassFile(order[k], fsys[order[k]]).recs])
        b == FlattenSeq([k \in DOMAIN order |->
                 RouterPassFile(order[k], fsys[order[k]]).recs])
    IN [k \in DOMAIN a |-> a[k].rec] \o [k \in DOMAIN b |-> b[k].rec]

\* C6: the route entries of the report are the same whatever order the walks
\* took: they are the entries of the run that walks the files in the order of
\* their paths.
C6_OrderIndependent ==
    ScannerDone =>
        out.entries = RenderEntries(SortRoutes(RoutesInOrder(fs, SortedWalk(fs))))

\* the input has been read to its end
InputProcessed ==
    IF utility = "scanner"
    THEN WalkNext(fs, visitedA) = {} /\ WalkNext(fs, visitedB) = {}
    ELSE pc # "load" /\ doc.state = "ok" /\ todo = <<>>

\* C7: in every run of either script the output file is opened for writing at
\* most once, and only when all input has been read and transformed; a run that
\* ends on a read or parse error leaves the output file untouched.
C7_WrittenOnceAfterInput ==
    /\ opens <= 1
    /\ opens = 1 <=> out.written
    /\ out.written => pc = "done" /\ InputProcessed
    /\ pc = "failed" => ~out.written

\* C7 witness: a scan that had collected records failed on an unreadable file.
C7_Witness ==
    /\ utility = "scanner"
    /\ pc = "failed"
    /\ routes # <<>>
    /\ ~out.written

\* C9: the summary's count of attribute routes is the number of records the
\* attribute pass produced, its count of routes.php routes the number the
\* routes.php pass produced, and the two add up to the total.
C9_CountsPerStyle ==
    ScannerDone =>
        /\ out.total_routes = Len(routes)
        /\ out.attr_routes = Cardinality({k \in DOMAIN origin : origin[k].style = "A"})
        /\ out.router_routes = Cardinality({k \in DOMAIN origin : origin[k].style = "B"})
        /\ out.attr_routes + out.router_routes = out.total_routes

====
